---- MODULE Spec2Model ----
(***************************************************************************)
(* The document writer of nanobot/skills/feishu/scripts/feishu_doc.py:     *)
(* FeishuDoc.write_document_content, its batch writer                      *)
(* (_write_children_batch), the two-phase table builder                    *)
(* (_create_table_block) and the text fallback (_write_table_as_text).     *)
(* One run of write_document_content is a sequential process; every        *)
(* api.post call is one step whose response is chosen by the store.        *)
(***************************************************************************)
EXTENDS Integers, Sequences, FiniteSets, TLC

(***************************************************************************)
(* Program constants and model bounds                                      *)
(***************************************************************************)
\* batch_size default of _write_children_batch and the flush threshold
BatchSize == 50

\* longest run of one-wire-block blocks in a document
MaxSingles == 120
\* length of the short documents built from the palette
MaxBlocks == 2
\* items of a list block
MaxItems == 3
\* header cells of a table
MaxCols == 3
\* data rows of a table
MaxRows == 2

document_id == "doc"

(***************************************************************************)
(* Internal blocks, as _markdown_to_blocks builds them.  A field a block   *)
(* type does not carry holds the default that data.get(...) returns.       *)
(***************************************************************************)
Block(t, lv, txt, its, hs, rs) ==
    [type |-> t, level |-> lv, text |-> txt, items |-> its,
     headers |-> hs, rows |-> rs]

Heading(lv, txt) == Block("heading", lv, txt, <<>>, <<>>, <<>>)
Paragraph(txt)   == Block("paragraph", 0, txt, <<>>, <<>>, <<>>)
BulletList(its)  == Block("bullet_list", 0, "", its, <<>>, <<>>)
OrderedList(its) == Block("ordered_list", 0, "", its, <<>>, <<>>)
CodeBlock(txt)   == Block("code", 0, txt, <<>>, <<>>, <<>>)
Quote(txt)       == Block("quote", 0, txt, <<>>, <<>>, <<>>)
Divider          == Block("divider", 0, "", <<>>, <<>>, <<>>)
Table(hs, rs)    == Block("table", 0, "", <<>>, hs, rs)

(***************************************************************************)
(* Wire blocks.  text stands for the Text object _make_text_obj builds     *)
(* from the string; the heading key is determined by block_type.           *)
(***************************************************************************)
Wire(bt, txt) == [block_type |-> bt, text |-> txt]

RECURSIVE JoinPipe(_)
\* " | ".join(cells)
JoinPipe(cells) ==
    IF cells = <<>> THEN ""
    ELSE IF Len(cells) = 1 THEN cells[1]
    ELSE cells[1] \o " | " \o JoinPipe(Tail(cells))

\* _blocks_to_feishu_json: one internal block to its list of wire blocks
BlocksToFeishuJson(block) ==
    CASE block.type = "heading"      -> << Wire(2 + block.level, block.text) >>
      [] block.type = "paragraph"    -> << Wire(2, block.text) >>
      [] block.type = "bullet_list"  ->
            [k \in 1..Len(block.items) |-> Wire(12, block.items[k])]
      [] block.type = "ordered_list" ->
            [k \in 1..Len(block.items) |-> Wire(13, block.items[k])]
      [] block.type = "code"         -> << Wire(14, block.text) >>
      [] block.type = "quote"        -> << Wire(15, block.text) >>
      [] block.type = "divider"      -> << Wire(22, "") >>
      [] block.type = "table"        ->
            << Wire(2, JoinPipe(block.headers)) >>
            \o [k \in 1..Len(block.rows) |-> Wire(2, JoinPipe(block.rows[k]))]
      [] OTHER                       -> << >>

(***************************************************************************)
(* The documents of the model: block sequences the scanner can produce.    *)
(* A table has a non-empty header row and at least one non-empty data row. *)
(***************************************************************************)
Txt(p, n) == p \o ToString(n)

\* the n-th block of a run of blocks that translate to one wire block each
Single(n) ==
    CASE n % 5 = 1 -> Heading(1 + (n % 6), Txt("h", n))
      [] n % 5 = 2 -> Paragraph(Txt("p", n))
      [] n % 5 = 3 -> CodeBlock(Txt("c", n))
      [] n % 5 = 4 -> Quote(Txt("q", n))
      [] OTHER     -> Divider

Singles(n) == [k \in 1..n |-> Single(k)]

Items(p, n) == [k \in 1..n |-> Txt(p, k)]

Row(r, len) == [c \in 1..len |-> Txt("r", r) \o Txt("c", c)]

\* a table of cols header cells whose data rows have the lengths in lens
TableOf(cols, lens) ==
    Table(Items("h", cols), [r \in 1..Len(lens) |-> Row(r, lens[r])])

RegularTables ==
    { TableOf(c, [r \in 1..n |-> c]) : c \in 1..MaxCols, n \in 1..MaxRows }

\* data rows shorter or longer than the header row
RaggedTables ==
    { TableOf(2, lens) : lens \in {<<1>>, <<3>>, <<3, 2>>, <<1, 3>>} }

Tables == RegularTables \cup RaggedTables

SmallTable == TableOf(2, <<2>>)

Palette ==
    { Paragraph("p"), BulletList(Items("b", MaxItems)), SmallTable }

RECURSIVE SeqsUpTo(_, _)
SeqsUpTo(S, n) ==
    IF n = 0 THEN { <<>> }
    ELSE LET shorter == SeqsUpTo(S, n - 1)
         IN  shorter \cup { Append(s, x) : s \in shorter, x \in S }

ShortDocs == SeqsUpTo(Palette, MaxBlocks)

ListDocs ==
    { << BulletList(Items("b", n)), OrderedList(Items("o", m)) >> :
        n \in 1..MaxItems, m \in 1..MaxItems }

TableDocs ==
    { <<t>> : t \in Tables }
    \cup { << Paragraph("a"), t, Paragraph("z") >> : t \in RaggedTables }

\* documents around the batch boundary
LongDocs ==
    { Singles(n) : n \in {10, BatchSize - 1, BatchSize, BatchSize + 1,
                          2 * BatchSize, MaxSingles} }
    \cup { Singles(BatchSize - 1) \o << BulletList(Items("b", MaxItems)) >>
             \o [k \in 1..b |-> Single(BatchSize + k)] : b \in {0, BatchSize - 2} }
    \cup { Singles(BatchSize - 1) \o << SmallTable >>
             \o [k \in 1..b |-> Single(BatchSize + k)] : b \in {0, 1} }

Docs == ShortDocs \cup ListDocs \cup TableDocs \cup LongDocs

(***************************************************************************)
(* What api.post returns: None, the data object of a response with no      *)
(* field in it ({}), or a data object.  children is the length of its      *)
(* 'children' list (0 when the list is empty or absent) and cells the      *)
(* 'table.cells' array of its first child.                                 *)
(***************************************************************************)
Nil          == [kind |-> "nil",   children |-> 0, cells |-> <<>>]
EmptyPayload == [kind |-> "empty", children |-> 0, cells |-> <<>>]
Data(n, ids) == [kind |-> "data",  children |-> n, cells |-> ids]

\* Python truth value of a post result: None and {} are both false
Truthy(res) == res.kind = "data"

\* child counts the store reports for a chunk of n blocks
ReportedCounts(n) ==
    { k \in {0, 1, n \div 2, (n \div 2) + 1, n - 1, n, n + 1} : k >= 0 }

BatchResponses(n) == {Nil, EmptyPayload} \cup { Data(k, <<>>) : k \in ReportedCounts(n) }

CellId(n) == Txt("cell", n)

\* responses to a shell request for a table of n cells
ShellResponses(n) ==
    {Nil, EmptyPayload, Data(0, <<>>)}
    \cup { Data(1, [c \in 1..k |-> CellId(c)]) : k \in 0..(n + 1) }

CellResponses == {Nil, EmptyPayload, Data(1, <<>>)}

(***************************************************************************)
(* State                                                                   *)
(***************************************************************************)
VARIABLES
    blocks,          \* the block list of the document being written
    pc,              \* position of the run
    i,               \* index of the block the for loop is at (from 1)
    pending_blocks,  \* write_document_content: accumulated wire blocks
    success_count,   \* write_document_content
    total_count,     \* write_document_content
    ret,             \* what write_document_content returned: "True" or
                     \* "False", "none" before it returns
    feishu_blocks,   \* _write_children_batch: the list it was handed
    batch_i,         \* _write_children_batch: offset of the next chunk
    success,         \* _write_children_batch: its running count
    caller,          \* which call of _write_children_batch is running
    result,          \* the value the last api.post returned
    cell_ids,        \* _create_table_block
    row_idx,         \* _create_table_block: the fill loops' position
    col_idx,
    filled,          \* _create_table_block
    requests,        \* history: the api.post calls issued, in order
    table_ok,        \* history: blocks for which _create_table_block returned True
    fills_failed,    \* history: fill requests of the current table answered falsy
    lines,           \* _markdown_to_blocks: markdown.split('\n')
    line_i,          \* _markdown_to_blocks: the cursor i, counted from 1
    scan_blocks,     \* _markdown_to_blocks: its list 'blocks'
    spans,           \* history: rule and line range of every dispatch step
    inline_text,     \* the text handed to the inline parser
    elements,        \* _make_text_elements: its list 'elements'
    formatted,       \* _parse_inline_formatting: the dict it returns
    doc_info,        \* create_document: what it returned
    tenant_access_token,  \* FeishuAPI: the token held, 0 for None
    token_expires_at,     \* FeishuAPI: "None", or whether now is still more
                          \* than five minutes before it ("later") or not ("due")
    max_retries,     \* FeishuAPI: config.get('max_retries', 3)
    headers_token,   \* _make_request: the token in headers["Authorization"]
    attempt,         \* _make_request: the loop variable
    api_ret,         \* what _make_request returned, "none" before
    issued,          \* history: how many tokens the auth endpoint has issued
    http_sent        \* history: the HTTP requests sent, in order

vars == << blocks, pc, i, pending_blocks, success_count, total_count, ret,
           feishu_blocks, batch_i, success, caller, result, cell_ids,
           row_idx, col_idx, filled, requests, table_ok, fills_failed,
           lines, line_i, scan_blocks, spans,
           inline_text, elements, formatted, doc_info,
           tenant_access_token, token_expires_at, max_retries, headers_token,
           attempt, api_ret, issued, http_sent >>

mainVars  == << pending_blocks, success_count, total_count >>
batchVars == << feishu_blocks, batch_i, success, caller >>
tableVars == << cell_ids, row_idx, col_idx, filled, fills_failed >>
scanVars  == << lines, line_i, scan_blocks, spans >>
inlineVars == << inline_text, elements, formatted >>
createVars == << doc_info >>
apiVars == << tenant_access_token, token_expires_at, max_retries, headers_token,
              attempt, api_ret, issued, http_sent >>
otherVars == << inlineVars, createVars, apiVars >>

\* no text is being scanned
ScanIdle ==
    /\ lines = <<>>
    /\ line_i = 1
    /\ scan_blocks = <<>>
    /\ spans = <<>>

\* no text is being parsed for inline markup
InlineIdle ==
    /\ inline_text = ""
    /\ elements = <<>>
    /\ formatted = "none"

\* what create_document returned: None or the dict doc_info ('returned' is
\* "no" until then)
NotReturned == [returned |-> "no", document_id |-> "", content_written |-> FALSE]
ReturnedNone == [returned |-> "None", document_id |-> "", content_written |-> FALSE]
DocInfo(id, written) ==
    [returned |-> "dict", document_id |-> id, content_written |-> written]

\* create_document has not returned
CreateIdle ==
    doc_info = NotReturned

\* no call of the transport is under way
ApiIdle ==
    /\ tenant_access_token = 0
    /\ token_expires_at = "None"
    /\ max_retries = 0
    /\ headers_token = 0
    /\ attempt = 0
    /\ api_ret = "none"
    /\ issued = 0
    /\ http_sent = <<>>

OtherIdle ==
    /\ InlineIdle
    /\ CreateIdle
    /\ ApiIdle

Init ==
    /\ blocks \in Docs
    /\ pc = "start"
    /\ i = 1
    /\ pending_blocks = <<>>
    /\ success_count = 0
    /\ total_count = 0
    /\ ret = "none"
    /\ feishu_blocks = <<>>
    /\ batch_i = 0
    /\ success = 0
    /\ caller = "none"
    /\ result = Nil
    /\ cell_ids = <<>>
    /\ row_idx = 0
    /\ col_idx = 0
    /\ filled = 0
    /\ requests = <<>>
    /\ table_ok = {}
    /\ fills_failed = 0
    /\ ScanIdle
    /\ OtherIdle

(***************************************************************************)
(* write_document_content                                                  *)
(***************************************************************************)
\* 'if not blocks: return False'
Start ==
    /\ pc = "start"
    /\ IF blocks = <<>>
          THEN /\ pc' = "done"
               /\ ret' = "False"
          ELSE /\ pc' = "loop"
               /\ ret' = ret
    /\ UNCHANGED << otherVars, scanVars, blocks, i, mainVars, batchVars, result, tableVars,
                    requests, table_ok >>

\* the call self._write_children_batch(document_id, document_id, blks)
CallWriteChildrenBatch(blks, who) ==
    /\ pc' = "write"
    /\ feishu_blocks' = blks
    /\ batch_i' = 0
    /\ success' = 0
    /\ caller' = who

\* mutant: the buffer is flushed one block late
BufferFullLate(pending) == Len(pending) > BatchSize

\* 'if len(pending_blocks) >= 50'
BufferFull(pending) == Len(pending) >= BatchSize

\* mutant: the table is started with the text before it still pending
FlushBeforeTableNever(pending) == FALSE

\* 'if pending_blocks:' ahead of a table
FlushBeforeTable(pending) == pending # <<>>

\* a block that is not a table: translate, accumulate, flush at 50
ProcessBlock ==
    /\ pc = "loop"
    /\ i <= Len(blocks)
    /\ blocks[i].type # "table"
    /\ LET fbs == BlocksToFeishuJson(blocks[i])
           acc == pending_blocks \o fbs
       IN  /\ pending_blocks' = acc
           /\ IF BufferFull(acc)
                 THEN /\ CallWriteChildrenBatch(acc, "full")
                      /\ i' = i
                 ELSE /\ i' = i + 1
                      /\ UNCHANGED << pc, batchVars >>
    /\ UNCHANGED << otherVars, scanVars, blocks, success_count, total_count, ret, result, tableVars,
                    requests, table_ok >>

\* a table block: flush what is pending, then _create_table_block
ProcessTable ==
    /\ pc = "loop"
    /\ i <= Len(blocks)
    /\ blocks[i].type = "table"
    /\ IF FlushBeforeTable(pending_blocks)
          THEN CallWriteChildrenBatch(pending_blocks, "table")
          ELSE /\ pc' = "table"
               /\ UNCHANGED batchVars
    /\ UNCHANGED << otherVars, scanVars, blocks, i, mainVars, ret, result, tableVars, requests,
                    table_ok >>

\* after the loop: flush what is left
EndOfBlocks ==
    /\ pc = "loop"
    /\ i > Len(blocks)
    /\ IF pending_blocks # <<>>
          THEN CallWriteChildrenBatch(pending_blocks, "final")
          ELSE /\ pc' = "finish"
               /\ UNCHANGED batchVars
    /\ UNCHANGED << otherVars, scanVars, blocks, i, mainVars, ret, result, tableVars, requests,
                    table_ok >>

\* mutant: the threshold is not strict
OverallSuccessAtLeastHalf(s, t) == t # 0 /\ 2 * s >= t

\* total_count == 0 -> False; else success_count / total_count > 0.5.
\* The quotient of two counts below 2^53 exceeds 0.5 exactly when 2s > t.
OverallSuccess(s, t) == t # 0 /\ 2 * s > t

Finish ==
    /\ pc = "finish"
    /\ ret' = IF OverallSuccess(success_count, total_count) THEN "True" ELSE "False"
    /\ pc' = "done"
    /\ UNCHANGED << otherVars, scanVars, blocks, i, mainVars, batchVars, result, tableVars,
                    requests, table_ok >>

(***************************************************************************)
(* _write_children_batch                                                   *)
(***************************************************************************)
Min(a, b) == IF a <= b THEN a ELSE b

\* mutant: a later chunk starts one block early
BatchSliceOverlap(blks, off) ==
    SubSeq(blks, IF off = 0 THEN 1 ELSE off, Min(off + BatchSize, Len(blks)))

\* mutant: the slice has no upper end
BatchSliceRest(blks, off) == SubSeq(blks, off + 1, Len(blks))

\* feishu_blocks[i:i + batch_size]
BatchSlice(blks, off) == SubSeq(blks, off + 1, Min(off + BatchSize, Len(blks)))

\* what a chunk adds to success: 'len(children) if children else len(batch)'
\* under 'if result:', nothing otherwise
ChunkSuccess(res, batch) ==
    IF Truthy(res)
       THEN IF res.children > 0 THEN res.children ELSE Len(batch)
       ELSE 0

\* which call issued the request: a flush of write_document_content or
\* the text fallback of a table
Via(who) == IF who = "fallback" THEN "fallback" ELSE "flush"

\* mutant: a failed chunk ends the loop ('break' after the failure message)
WriteChunkAbortOnFailure ==
    /\ pc = "write"
    /\ batch_i < Len(feishu_blocks)
    /\ LET batch == BatchSlice(feishu_blocks, batch_i)
       IN  \E res \in BatchResponses(Len(batch)) :
              /\ result' = res
              /\ success' = success + ChunkSuccess(res, batch)
              /\ requests' = Append(requests,
                     [via |-> Via(caller), parent |-> document_id,
                      children |-> batch, at |-> i, answer |-> res,
                      credited |-> ChunkSuccess(res, batch)])
              /\ batch_i' = IF Truthy(res) THEN batch_i + BatchSize
                            ELSE Len(feishu_blocks)
    /\ UNCHANGED << otherVars, scanVars, blocks, pc, i, mainVars, ret, feishu_blocks, caller,
                    tableVars, table_ok >>

\* one iteration of 'for i in range(0, len(feishu_blocks), batch_size)'
WriteChunk ==
    /\ pc = "write"
    /\ batch_i < Len(feishu_blocks)
    /\ LET batch == BatchSlice(feishu_blocks, batch_i)
       IN  \E res \in BatchResponses(Len(batch)) :
              /\ result' = res
              /\ success' = success + ChunkSuccess(res, batch)
              /\ requests' = Append(requests,
                     [via |-> Via(caller), parent |-> document_id,
                      children |-> batch, at |-> i, answer |-> res,
                      credited |-> ChunkSuccess(res, batch)])
    /\ batch_i' = batch_i + BatchSize
    /\ UNCHANGED << otherVars, scanVars, blocks, pc, i, mainVars, ret, feishu_blocks, caller,
                    tableVars, table_ok >>

\* 'return success', and what the caller does with it
WriteReturn ==
    /\ pc = "write"
    /\ batch_i >= Len(feishu_blocks)
    /\ CASE caller = "full" ->
              /\ success_count' = success_count + success
              /\ total_count' = total_count + Len(pending_blocks)
              /\ pending_blocks' = <<>>
              /\ i' = i + 1
              /\ pc' = "loop"
         [] caller = "table" ->
              /\ success_count' = success_count + success
              /\ total_count' = total_count + Len(pending_blocks)
              /\ pending_blocks' = <<>>
              /\ i' = i
              /\ pc' = "table"
         [] caller = "final" ->
              /\ success_count' = success_count + success
              /\ total_count' = total_count + Len(pending_blocks)
              /\ pending_blocks' = pending_blocks
              /\ i' = i
              /\ pc' = "finish"
         [] caller = "fallback" ->
              \* _write_table_as_text drops the count; _create_table_block
              \* returns False; the loop counts the table as attempted
              /\ success_count' = success_count
              /\ total_count' = total_count + 1
              /\ pending_blocks' = pending_blocks
              /\ i' = i + 1
              /\ pc' = "loop"
    /\ feishu_blocks' = <<>>
    /\ batch_i' = 0
    /\ success' = 0
    /\ caller' = "none"
    /\ result' = Nil
    /\ UNCHANGED << otherVars, scanVars, blocks, ret, tableVars, requests, table_ok >>

(***************************************************************************)
(* _create_table_block and _write_table_as_text                            *)
(***************************************************************************)
\* 'len(headers) if headers else (len(rows[0]) if rows else 0)'
ColCount(t) ==
    IF t.headers # <<>> THEN Len(t.headers)
    ELSE IF t.rows # <<>> THEN Len(t.rows[1]) ELSE 0

\* mutant: the header row is not counted
RowCountNoHeader(t) == Len(t.rows)

\* '(1 if headers else 0) + len(rows)'
RowCount(t) == (IF t.headers # <<>> THEN 1 ELSE 0) + Len(t.rows)

\* mutant: the header row comes after the data rows
AllRowsHeaderLast(t) ==
    t.rows \o (IF t.headers # <<>> THEN << t.headers >> ELSE << >>)

\* all_rows: headers (when there are any) followed by rows
AllRows(t) == (IF t.headers # <<>> THEN << t.headers >> ELSE << >>) \o t.rows

\* the table block of the shell request
TableShell(t) ==
    [block_type |-> 31, row_size |-> RowCount(t), column_size |-> ColCount(t)]

\* mutant: the header row is left out of the fallback
TableAsTextRowsOnly(t) == [r \in 1..Len(t.rows) |-> Wire(2, JoinPipe(t.rows[r]))]

\* text_blocks of _write_table_as_text
TableAsText(t) ==
    (IF t.headers # <<>> THEN << Wire(2, JoinPipe(t.headers)) >> ELSE << >>)
    \o [r \in 1..Len(t.rows) |-> Wire(2, JoinPipe(t.rows[r]))]

\* mutant: the index is column-major
CellIndexColumnMajor(r, c, cols) == c * cols + r

\* 'cell_index = row_idx * col_count + col_idx'
CellIndex(r, c, cols) == r * cols + c

\* mutant: one filled cell is not enough
TableOkSeveral(n) == n > 1

\* 'return filled > 0'
TableOk(n) == n > 0

\* The position (row_idx, col_idx) of the next fill request the two loops
\* reach from (r, c), or <<>> when the loops end first: a row that is used
\* up moves to the next row, and so does the 'break' at a cell_index that
\* is outside cell_ids.
RECURSIVE FillPos(_, _, _, _)
FillPos(t, ids, r, c) ==
    IF r >= Len(AllRows(t)) THEN << >>
    ELSE IF c >= Len(AllRows(t)[r + 1]) THEN FillPos(t, ids, r + 1, 0)
    ELSE IF CellIndex(r, c, ColCount(t)) >= Len(ids) THEN FillPos(t, ids, r + 1, 0)
    ELSE << r, c >>

\* mutant: a failed table aborts the run
TableReturnAborts(ok) ==
    /\ total_count' = total_count + 1
    /\ success_count' = IF ok THEN success_count + 1 ELSE success_count
    /\ table_ok' = IF ok THEN table_ok \cup {i} ELSE table_ok
    /\ i' = i + 1
    /\ pc' = IF ok THEN "loop" ELSE "aborted"
    /\ cell_ids' = <<>>
    /\ row_idx' = 0
    /\ col_idx' = 0
    /\ filled' = 0
    /\ fills_failed' = 0
    /\ UNCHANGED << pending_blocks, batchVars >>

\* mutant: a table is left out of total_count
TableReturnUncounted(ok) ==
    /\ total_count' = total_count
    /\ success_count' = IF ok THEN success_count + 1 ELSE success_count
    /\ table_ok' = IF ok THEN table_ok \cup {i} ELSE table_ok
    /\ i' = i + 1
    /\ pc' = "loop"
    /\ cell_ids' = <<>>
    /\ row_idx' = 0
    /\ col_idx' = 0
    /\ filled' = 0
    /\ fills_failed' = 0
    /\ UNCHANGED << pending_blocks, batchVars >>

\* _create_table_block returns ok to the loop of write_document_content
TableReturn(ok) ==
    /\ total_count' = total_count + 1
    /\ success_count' = IF ok THEN success_count + 1 ELSE success_count
    /\ table_ok' = IF ok THEN table_ok \cup {i} ELSE table_ok
    /\ i' = i + 1
    /\ pc' = "loop"
    /\ cell_ids' = <<>>
    /\ row_idx' = 0
    /\ col_idx' = 0
    /\ filled' = 0
    /\ fills_failed' = 0
    /\ UNCHANGED << pending_blocks, batchVars >>

\* phase 1: the size check and the shell request
CreateTableShell ==
    /\ pc = "table"
    /\ LET t == blocks[i]
       IN  IF ColCount(t) = 0 \/ RowCount(t) = 0
              THEN /\ TableReturn(FALSE)
                   /\ UNCHANGED << result, requests >>
              ELSE \E res \in ShellResponses(RowCount(t) * ColCount(t)) :
                     /\ requests' = Append(requests,
                            [via |-> "shell", parent |-> document_id,
                             children |-> << TableShell(t) >>, at |-> i,
                             answer |-> [res EXCEPT !.cells = <<>>],
                             usable |-> /\ Truthy(res)
                                        /\ res.children > 0
                                        /\ res.cells # <<>>])
                     /\ IF ~Truthy(res)
                           THEN \* fall back to text
                                IF TableAsText(t) # <<>>
                                   THEN /\ CallWriteChildrenBatch(TableAsText(t), "fallback")
                                        /\ result' = res
                                        /\ UNCHANGED << i, mainVars, tableVars, table_ok >>
                                   ELSE /\ TableReturn(FALSE)
                                        /\ result' = Nil
                           ELSE IF res.children = 0
                                   THEN /\ TableReturn(FALSE)
                                        /\ result' = Nil
                                   ELSE /\ cell_ids' = res.cells
                                        /\ row_idx' = 0
                                        /\ col_idx' = 0
                                        /\ filled' = 0
                                        /\ fills_failed' = 0
                                        /\ pc' = "fill"
                                        /\ result' = res
                                        /\ UNCHANGED << i, mainVars, batchVars, table_ok >>
    /\ UNCHANGED << otherVars, scanVars, blocks, ret >>

\* phase 2: one fill request
FillCell ==
    /\ pc = "fill"
    /\ LET t   == blocks[i]
           pos == FillPos(t, cell_ids, row_idx, col_idx)
       IN  /\ pos # << >>
           /\ \E res \in CellResponses :
                LET r == pos[1]
                    c == pos[2]
                    cell_block_id == cell_ids[CellIndex(r, c, ColCount(t)) + 1]
                    cell_text == AllRows(t)[r + 1][c + 1]
                IN  /\ requests' = Append(requests,
                           [via |-> "cell", parent |-> cell_block_id,
                            children |-> << Wire(2, cell_text) >>, at |-> i])
                    /\ result' = res
                    /\ filled' = IF Truthy(res) THEN filled + 1 ELSE filled
                    /\ fills_failed' = IF Truthy(res) THEN fills_failed
                                       ELSE fills_failed + 1
                    /\ row_idx' = r
                    /\ col_idx' = c + 1
    /\ UNCHANGED << otherVars, scanVars, blocks, pc, i, mainVars, ret, batchVars, cell_ids, table_ok >>

\* the loops are over: 'return filled > 0'
FillReturn ==
    /\ pc = "fill"
    /\ FillPos(blocks[i], cell_ids, row_idx, col_idx) = << >>
    /\ TableReturn(TableOk(filled))
    /\ result' = Nil
    /\ UNCHANGED << otherVars, scanVars, blocks, ret, requests >>

Next ==
    \/ Start
    \/ ProcessBlock
    \/ ProcessTable
    \/ EndOfBlocks
    \/ Finish
    \/ WriteChunk
    \/ WriteReturn
    \/ CreateTableShell
    \/ FillCell
    \/ FillReturn

Spec == Init /\ [][Next]_vars

\* the run is a sequential process that takes its next step whenever it
\* has one: every api.post returns (a result or None)
FairSpec == Spec /\ WF_vars(Next)

(***************************************************************************)
(* _create_table_block on its own: the caller hands it any table data,     *)
(* also data the scanner never produces (no header row, no rows, an empty  *)
(* first row).                                                             *)
(***************************************************************************)
HeaderlessTables ==
    { Table(<<>>, [r \in 1..Len(lens) |-> Row(r, lens[r])]) :
        lens \in {<<1>>, <<2>>, <<2, 2>>, <<3, 3>>, <<2, 3>>, <<2, 1>>} }

EmptyTables ==
    { Table(<<>>, <<>>), Table(<<>>, << <<>>, Row(2, 2) >>),
      Table(Items("h", 2), <<>>) }

AnyTables == Tables \cup HeaderlessTables \cup EmptyTables

InitTable ==
    /\ blocks \in { <<t>> : t \in AnyTables }
    /\ pc = "table"
    /\ i = 1
    /\ pending_blocks = <<>>
    /\ success_count = 0
    /\ total_count = 0
    /\ ret = "none"
    /\ feishu_blocks = <<>>
    /\ batch_i = 0
    /\ success = 0
    /\ caller = "none"
    /\ result = Nil
    /\ cell_ids = <<>>
    /\ row_idx = 0
    /\ col_idx = 0
    /\ filled = 0
    /\ requests = <<>>
    /\ table_ok = {}
    /\ fills_failed = 0
    /\ ScanIdle
    /\ OtherIdle

NextTable ==
    \/ CreateTableShell
    \/ FillCell
    \/ FillReturn
    \/ WriteChunk
    \/ WriteReturn

SpecTable == InitTable /\ [][NextTable]_vars

(***************************************************************************)
(* _markdown_to_blocks: strings.  A line is a string; s[k] of Python is    *)
(* Ch(s, k + 1).  The character U+0060 of a code fence cannot be written   *)
(* in a string of this language and is written ^ in the lines of the model.*)
(***************************************************************************)
Ch(s, k) == SubSeq(s, k, k)

From(s, k) == SubSeq(s, k, Len(s))

\* the white space of the model's lines
Spaces == {" ", "\t"}
Digits == {"0", "1", "2", "3", "4", "5", "6", "7", "8", "9"}

IsSpace(c) == c \in Spaces

RECURSIVE RStrip(_)
\* str.rstrip()
RStrip(s) ==
    IF s = "" THEN ""
    ELSE IF IsSpace(Ch(s, Len(s))) THEN RStrip(SubSeq(s, 1, Len(s) - 1)) ELSE s

RECURSIVE LStrip(_)
LStrip(s) ==
    IF s = "" THEN ""
    ELSE IF IsSpace(Ch(s, 1)) THEN LStrip(From(s, 2)) ELSE s

\* str.strip()
Strip(s) == LStrip(RStrip(s))

\* str.startswith(p)
StartsWith(s, p) == Len(s) >= Len(p) /\ SubSeq(s, 1, Len(p)) = p

\* 'p in s'
Contains(s, p) ==
    \E k \in 1..(Len(s) - Len(p) + 1) : SubSeq(s, k, k + Len(p) - 1) = p

RECURSIVE RunLength(_, _, _)
\* the number of characters of s from position k on that are in set C,
\* up to the first that is not
RunLength(s, k, C) ==
    IF k > Len(s) \/ Ch(s, k) \notin C THEN 0 ELSE 1 + RunLength(s, k + 1, C)

NoMatch == [ok |-> FALSE, text |-> "", num |-> 0, level |-> 0]
Match(txt, n, lv) == [ok |-> TRUE, text |-> txt, num |-> n, level |-> lv]

\* the tail '\s+(.+)$' of the heading and list patterns, matched from
\* position k of s: the white space is taken greedily and gives one
\* character back when nothing else is left for the group
RestAfterSpaces(s, k) ==
    LET sp == RunLength(s, k, Spaces)
    IN  IF sp = 0 THEN NoMatch
        ELSE IF k + sp <= Len(s) THEN Match(From(s, k + sp), 0, 0)
        ELSE IF sp >= 2 THEN Match(From(s, Len(s)), 0, 0)
        ELSE NoMatch

\* re.match(r'^(#{1,6})\s+(.+)$', s)
HeadingMatch(s) ==
    LET h == RunLength(s, 1, {"#"})
        m == RestAfterSpaces(s, h + 1)
    IN  IF h >= 1 /\ h <= 6 /\ m.ok THEN Match(m.text, 0, h) ELSE NoMatch

\* re.match(r'^[-*_]{3,}\s*$', s)
DividerMatch(s) ==
    LET d == RunLength(s, 1, {"-", "*", "_"})
    IN  d >= 3 /\ d + RunLength(s, d + 1, Spaces) = Len(s)

\* re.match(r'^[-*+]\s+(.+)$', s)
BulletMatch(s) ==
    IF s # "" /\ Ch(s, 1) \in {"-", "*", "+"} THEN RestAfterSpaces(s, 2)
    ELSE NoMatch

DigitValue(c) == CHOOSE n \in 0..9 : ToString(n) = c

RECURSIVE IntOf(_)
\* int(digits)
IntOf(ds) ==
    IF ds = "" THEN 0
    ELSE 10 * IntOf(SubSeq(ds, 1, Len(ds) - 1)) + DigitValue(Ch(ds, Len(ds)))

\* re.match(r'^(\d+)\.\s+(.+)$', s)
OrderedMatch(s) ==
    LET d == RunLength(s, 1, Digits)
        m == RestAfterSpaces(s, d + 2)
    IN  IF d >= 1 /\ d < Len(s) /\ Ch(s, d + 1) = "." /\ m.ok
           THEN Match(m.text, IntOf(SubSeq(s, 1, d)), 0)
           ELSE NoMatch

RECURSIVE DottedGroups(_, _)
\* the position after the longest run of groups '\.\d+' from position k
DottedGroups(s, k) ==
    LET d == IF k <= Len(s) /\ Ch(s, k) = "." THEN RunLength(s, k + 1, Digits) ELSE 0
    IN  IF d = 0 THEN k ELSE DottedGroups(s, k + 1 + d)

\* re.match(r'^\d+(\.\d+)+\s+', s): digits, one or more groups of a dot
\* and digits, white space (no shorter choice of digits or groups is
\* followed by white space when the longest is not)
IsSubsection(s) ==
    LET d   == RunLength(s, 1, Digits)
        end == DottedGroups(s, d + 1)
    IN  d >= 1 /\ end > d + 1 /\ RunLength(s, end, Spaces) >= 1

\* the three characters of a code fence
Fence == "^^^"

RECURSIVE Split(_, _)
\* s.split(sep) for a separator of one character
Split(s, sep) ==
    IF ~Contains(s, sep) THEN << s >>
    ELSE LET k == CHOOSE n \in 1..Len(s) :
                      Ch(s, n) = sep /\ \A m \in 1..(n - 1) : Ch(s, m) # sep
         IN  << SubSeq(s, 1, k - 1) >> \o Split(From(s, k + 1), sep)

NonEmpty(x) == x # ""

\* [cell.strip() for cell in s.split('|') if cell.strip()]
Cells(s) ==
    LET parts == Split(s, "|")
    IN  SelectSeq([k \in 1..Len(parts) |-> Strip(parts[k])], NonEmpty)

RECURSIVE Join(_, _)
\* sep.join(parts)
Join(parts, sep) ==
    IF parts = <<>> THEN ""
    ELSE IF Len(parts) = 1 THEN parts[1]
    ELSE parts[1] \o sep \o Join(Tail(parts), sep)

\* the continuation tests of the rules, on the raw following line
\* mutant: only a line with the marker '-' continues a bullet list
BulletContDashOnly(l) == BulletMatch(l).ok /\ Ch(l, 1) = "-"

BulletCont(l)  == BulletMatch(l).ok
OrderedCont(l) == OrderedMatch(l).ok
CodeCont(l)    == ~StartsWith(l, Fence)
QuoteCont(l)   == StartsWith(l, "> ")
RowCont(l)     == Contains(l, "|") /\ ~Contains(l, "--")
ParaCont(l)    ==
    /\ Strip(l) # ""
    /\ Ch(Strip(l), 1) \notin {"#", "-", "*", "+", ">"}

\* the continuation test of the loop of a rule
Continues(rule, l) ==
    CASE rule = "bullet_list"  -> BulletCont(l)
      [] rule = "ordered_list" -> OrderedCont(l)
      [] rule = "code"         -> CodeCont(l)
      [] rule = "quote"        -> QuoteCont(l)
      [] rule = "table"        -> RowCont(l)
      [] rule = "paragraph"    -> ParaCont(l)

\* j after 'while j < len(lines) and <test of the rule on lines[j]>: j += 1'
\* (lines counted from 1)
RunEnd(ls, j, rule) ==
    CHOOSE e \in j..(Len(ls) + 1) :
        /\ \A n \in j..(e - 1) : Continues(rule, ls[n])
        /\ e = Len(ls) + 1 \/ ~Continues(rule, ls[e])

HasCells(row) == row # << >>

\* 'if len(table_rows) > 1'
EnoughRows(table_rows) == Len(table_rows) > 1

\* the table rule at line k: table_rows when the rule emits a table,
\* << >> when the line falls through to the paragraph rule
TableRows(ls, k) ==
    LET line == RStrip(ls[k])
        cells == Cells(line)
    IN  IF /\ Contains(line, "|")
           /\ ~StartsWith(line, "|--")
           /\ cells # <<>>
           /\ k + 1 <= Len(ls)
           /\ Contains(ls[k + 1], "|")
           /\ Contains(ls[k + 1], "--")
           THEN LET j    == RunEnd(ls, k + 2, "table")
                    rows == SelectSeq([n \in 1..(j - k - 2) |-> Cells(ls[k + 1 + n])],
                                      HasCells)
                IN  IF EnoughRows(<< cells >> \o rows)
                       THEN << cells >> \o rows ELSE << >>
           ELSE << >>

\* the rule of the if-chain that handles line k: the first whose test holds
Rule(ls, k) ==
    LET line == RStrip(ls[k])
    IN  IF line = "" THEN "blank"
        ELSE IF HeadingMatch(line).ok THEN "heading"
        ELSE IF DividerMatch(line) THEN "divider"
        ELSE IF BulletMatch(line).ok THEN "bullet_list"
        ELSE IF /\ OrderedMatch(line).ok
                /\ OrderedMatch(line).num <= 3
                /\ ~IsSubsection(Strip(line)) THEN "ordered_list"
        ELSE IF StartsWith(line, Fence)
                THEN (IF RunEnd(ls, k + 1, "code") <= Len(ls)
                         THEN "code" ELSE "open_fence")
        ELSE IF StartsWith(line, "> ") THEN "quote"
        ELSE IF TableRows(ls, k) # << >> THEN "table"
        ELSE "paragraph"

(***************************************************************************)
(* _markdown_to_blocks: the texts of the model and the dispatch loop       *)
(***************************************************************************)
\* lines of the texts built by enumeration
MaxLines == 3

CoreLines ==
    { "", "plain", "- a", "* b", "1. x", "6. D", "^^^", "| c | d |", "|--|--|" }

RECURSIVE SeqsOfLen(_, _)
SeqsOfLen(S, n) ==
    IF n = 0 THEN { <<>> }
    ELSE { Append(s, x) : s \in SeqsOfLen(S, n - 1), x \in S }

\* texts that exercise one rule each
RuleTexts ==
    { << "# T", "## U  ", "####### seven", "#no space" >>,
      << "---", "-*_", "***  ", "--" >>,
      << "- a ", "-  b", "+ c", " - i", "-d" >>,
      << "3. c", "10. j", "4. d", "5. e" >>,
      << "6.1 S", "1.2 T", "1. x", "6.1 S", "2. y" >>,
      << "^^^py", "x = 1", "", "- y", "^^^", "after" >>,
      << "^^^", "a", "^^^py", "b" >>,
      << "plain", "^^^sh", "- a", "1. x" >>,
      << "> q", "> r", ">s", "> t" >>,
      << "| h | k |", "|---|---|", "| 1 | 2 |", "| |", "| 3 |", "end" >>,
      << "| h | k |", "|---|---|", "plain" >>,
      << "| h | k |", "| 1 | 2 |" >>,
      << "4. c|d", "|--|--|", "| 1 | 2 |" >>,
      << "plain", "1. x", "2. y" >>,
      << "plain", "| h |", "|--|", "| 1 |" >>,
      << "one", "  two  ", "three", "", "four" >>,
      << "one", "# T" >>,
      << "one", "> q" >>,
      << "one", "---" >>,
      << "one", "* b", "* c" >>,
      << "- a", "- b", "- c" >>,
      << "|", "|--|", "| 1 |" >> }

\* markdown.split('\n') has at least one element
ScanDocs ==
    UNION { SeqsOfLen(CoreLines, n) : n \in 1..MaxLines } \cup RuleTexts

writerVars ==
    << blocks, i, mainVars, ret, batchVars, result, tableVars, requests, table_ok >>

InitScan ==
    /\ OtherIdle
    /\ lines \in ScanDocs
    /\ line_i = 1
    /\ scan_blocks = <<>>
    /\ spans = <<>>
    /\ pc = "scan"
    /\ blocks = <<>>
    /\ i = 1
    /\ pending_blocks = <<>>
    /\ success_count = 0
    /\ total_count = 0
    /\ ret = "none"
    /\ feishu_blocks = <<>>
    /\ batch_i = 0
    /\ success = 0
    /\ caller = "none"
    /\ result = Nil
    /\ cell_ids = <<>>
    /\ row_idx = 0
    /\ col_idx = 0
    /\ filled = 0
    /\ requests = <<>>
    /\ table_ok = {}
    /\ fills_failed = 0

\* the dispatch loop is at a line that rule handles
At(rule) ==
    /\ pc = "scan"
    /\ line_i <= Len(lines)
    /\ Rule(lines, line_i) = rule

\* mutant: the cursor is set one line short, on the last line consumed
EmitOneShort(rule, block, j) ==
    /\ scan_blocks' = Append(scan_blocks, block)
    /\ line_i' = j - 1
    /\ spans' = Append(spans, [rule |-> rule, first |-> line_i, last |-> j - 1,
                                block |-> Len(scan_blocks) + 1])
    /\ UNCHANGED << lines, pc, writerVars, otherVars >>

\* blocks.append(block) and the cursor moves to line j
Emit(rule, block, j) ==
    /\ scan_blocks' = Append(scan_blocks, block)
    /\ line_i' = j
    /\ spans' = Append(spans, [rule |-> rule, first |-> line_i, last |-> j - 1,
                                block |-> Len(scan_blocks) + 1])
    /\ UNCHANGED << lines, pc, writerVars, otherVars >>

\* the lines ls[a..b]
Slice(ls, a, b) == [n \in 1..(b - a + 1) |-> ls[a + n - 1]]

SkipBlank ==
    /\ At("blank")
    /\ line_i' = line_i + 1
    /\ spans' = Append(spans, [rule |-> "blank", first |-> line_i, last |-> line_i,
                                block |-> 0])
    /\ UNCHANGED << lines, scan_blocks, pc, writerVars, otherVars >>

ScanHeading ==
    /\ At("heading")
    /\ LET m == HeadingMatch(RStrip(lines[line_i]))
       IN  Emit("heading", Heading(m.level, m.text), line_i + 1)

ScanDivider ==
    /\ At("divider")
    /\ Emit("divider", Divider, line_i + 1)

ScanBulletList ==
    /\ At("bullet_list")
    /\ LET j    == RunEnd(lines, line_i + 1, "bullet_list")
           more == Slice(lines, line_i + 1, j - 1)
           list_items ==
               << BulletMatch(RStrip(lines[line_i])).text >>
               \o [n \in 1..Len(more) |-> BulletMatch(more[n]).text]
       IN  Emit("bullet_list", BulletList(list_items), j)

ScanOrderedList ==
    /\ At("ordered_list")
    /\ LET j    == RunEnd(lines, line_i + 1, "ordered_list")
           more == Slice(lines, line_i + 1, j - 1)
           list_items ==
               << OrderedMatch(RStrip(lines[line_i])).text >>
               \o [n \in 1..Len(more) |-> OrderedMatch(more[n]).text]
       IN  Emit("ordered_list", OrderedList(list_items), j)

\* 'line[3:].strip() or "plaintext"'
Language(line) ==
    IF Strip(From(line, Len(Fence) + 1)) = "" THEN "plaintext"
    ELSE Strip(From(line, Len(Fence) + 1))

\* a code block also carries its language
CodeBlockIn(language, code) == [language |-> language] @@ CodeBlock(code)

\* an opening fence with a closing fence after it
ScanCodeBlock ==
    /\ At("code")
    /\ LET j == RunEnd(lines, line_i + 1, "code")
           code_lines == Slice(lines, line_i + 1, j - 1)
       IN  Emit("code",
                CodeBlockIn(Language(RStrip(lines[line_i])), Join(code_lines, "\n")),
                j + 1)

\* mutant: an opening fence with no closing fence takes the rest of the
\* text as its code
ScanOpenFenceToEnd ==
    /\ At("open_fence")
    /\ Emit("open_fence",
            CodeBlockIn(Language(RStrip(lines[line_i])),
                        Join(Slice(lines, line_i + 1, Len(lines)), "\n")),
            Len(lines) + 1)

\* an opening fence with no closing fence: 'i += 1'
ScanOpenFence ==
    /\ At("open_fence")
    /\ Emit("open_fence", Paragraph(RStrip(lines[line_i])), line_i + 1)

ScanQuote ==
    /\ At("quote")
    /\ LET j == RunEnd(lines, line_i + 1, "quote")
           more == Slice(lines, line_i + 1, j - 1)
           quote_lines ==
               << From(RStrip(lines[line_i]), 3) >>
               \o [n \in 1..Len(more) |-> From(more[n], 3)]
       IN  Emit("quote", Quote(Join(quote_lines, "\n")), j)

ScanTable ==
    /\ At("table")
    /\ LET table_rows == TableRows(lines, line_i)
           j == RunEnd(lines, line_i + 2, "table")
       IN  Emit("table", Table(table_rows[1], Tail(table_rows)), j)

\* the default rule; text stands for the content of the formatted text
ScanParagraph ==
    /\ At("paragraph")
    /\ LET j == RunEnd(lines, line_i + 1, "paragraph")
           more == Slice(lines, line_i + 1, j - 1)
           paragraph_lines ==
               << RStrip(lines[line_i]) >> \o [n \in 1..Len(more) |-> Strip(more[n])]
       IN  Emit("paragraph", Paragraph(Join(paragraph_lines, " ")), j)

\* 'return blocks'
ScanEnd ==
    /\ pc = "scan"
    /\ line_i > Len(lines)
    /\ pc' = "scanned"
    /\ UNCHANGED << scanVars, writerVars, otherVars >>

NextScan ==
    \/ SkipBlank
    \/ ScanHeading
    \/ ScanDivider
    \/ ScanBulletList
    \/ ScanOrderedList
    \/ ScanCodeBlock
    \/ ScanOpenFence
    \/ ScanQuote
    \/ ScanTable
    \/ ScanParagraph
    \/ ScanEnd

SpecScan == InitScan /\ [][NextScan]_vars

(***************************************************************************)
(* The inline parser: _make_text_elements and _parse_inline_formatting     *)
(* run the same pattern over a text with finditer.  Positions count from   *)
(* 1; "^" stands for the backtick.                                         *)
(***************************************************************************)
\* the literal d stands at position k of s
HasAt(s, k, d) ==
    /\ k >= 1
    /\ k + Len(d) - 1 <= Len(s)
    /\ SubSeq(s, k, k + Len(d) - 1) = d

RECURSIVE RunLengthNot(_, _, _)
\* '[^c]+' from position k of s: the number of characters up to the first c
RunLengthNot(s, k, c) ==
    IF k > Len(s) \/ Ch(s, k) = c THEN 0 ELSE 1 + RunLengthNot(s, k + 1, c)

\* the least element of a set of positive numbers, 0 for the empty set
LeastOf(N) == IF N = {} THEN 0 ELSE CHOOSE n \in N : \A m \in N : n <= m

\* '(.+?)' followed by the literal d, from position k of s: the length of
\* the shortest run of one or more characters, none a line break, after
\* which d stands; 0 when there is none
LazyInner(s, k, d) ==
    LeastOf({ n \in 1..(Len(s) - k - Len(d) + 1) :
                  /\ HasAt(s, k + n, d)
                  /\ \A m \in k..(k + n - 1) : Ch(s, m) # "\n" })

InlineNoMatch ==
    [ok |-> FALSE, style |-> "", inner |-> "", url |-> "", whole |-> "", end |-> 0]

InlineFound(style, inner, url, whole, end) ==
    [ok |-> TRUE, style |-> style, inner |-> inner, url |-> url,
     whole |-> whole, end |-> end]

\* the match of 'd(.+?)d' at position p when the inner group has n
\* characters; 'end' is the position after the match
DelimitedWith(s, p, d, style, n) ==
    IF HasAt(s, p, d) /\ n > 0
    THEN InlineFound(style, SubSeq(s, p + Len(d), p + Len(d) + n - 1), "",
                     SubSeq(s, p, p + 2 * Len(d) + n - 1), p + 2 * Len(d) + n)
    ELSE InlineNoMatch

\* one alternative 'd(.+?)d' of the pattern, tried at position p
Delimited(s, p, d, style) ==
    DelimitedWith(s, p, d, style, LazyInner(s, p + Len(d), d))

\* the match of the link alternative at position p when '[^\]]+' takes t
\* characters and '[^)]+' takes u
LinkWith(s, p, t, u) ==
    IF /\ HasAt(s, p, "[")
       /\ t >= 1
       /\ HasAt(s, p + t + 1, "](")
       /\ u >= 1
       /\ HasAt(s, p + t + u + 3, ")")
    THEN InlineFound("link", SubSeq(s, p + 1, p + t),
                     SubSeq(s, p + t + 3, p + t + u + 2),
                     SubSeq(s, p, p + t + u + 3), p + t + u + 4)
    ELSE InlineNoMatch

LinkUpTo(s, p, t) == LinkWith(s, p, t, RunLengthNot(s, p + t + 3, ")"))

\* the alternative '\[([^\]]+)\]\(([^)]+)\)', tried at position p
LinkMatch(s, p) == LinkUpTo(s, p, RunLengthNot(s, p + 1, "]"))

\* the first of the alternatives that matched
FirstFound(alts) ==
    IF \E k \in 1..Len(alts) : alts[k].ok
    THEN alts[LeastOf({ k \in 1..Len(alts) : alts[k].ok })]
    ELSE InlineNoMatch

\* the pattern at position p: the first alternative that matches there
InlineMatchAt(s, p) ==
    FirstFound(<< Delimited(s, p, "***", "bold_italic"),
                  Delimited(s, p, "**", "bold"),
                  Delimited(s, p, "*", "italic"),
                  Delimited(s, p, "^", "code"),
                  Delimited(s, p, "~~", "strikethrough"),
                  LinkMatch(s, p) >>)

\* finditer: the leftmost position from k on where the pattern matches,
\* 0 when there is none
NextMatchFrom(s, k) == LeastOf({ p \in k..Len(s) : InlineMatchAt(s, p).ok })

PlainRun(txt) == [style |-> "plain", inner |-> txt, url |-> "", whole |-> txt]

\* mutant: a matched construct contributes the whole match (group 1)
RunOfWholeMatch(m) ==
    [style |-> m.style, inner |-> m.whole, url |-> m.url, whole |-> m.whole]

\* what a match appends: the inner group and, for a link, the url
RunOf(m) ==
    [style |-> m.style, inner |-> m.inner, url |-> m.url, whole |-> m.whole]

RECURSIVE InlineRuns(_, _)
\* one pass of the loop for the match m at position p, with last_end = k - 1
RunsWith(s, k, p, m) ==
    (IF p > k THEN << PlainRun(SubSeq(s, k, p - 1)) >> ELSE <<>>)
    \o << RunOf(m) >> \o InlineRuns(s, m.end)

\* the next match is at p, or there is none and the remaining text is left
RunsFrom(s, k, p) ==
    IF p = 0
    THEN IF k <= Len(s) THEN << PlainRun(From(s, k)) >> ELSE <<>>
    ELSE RunsWith(s, k, p, InlineMatchAt(s, p))

\* the loop over finditer with last_end = k - 1, and the remaining text
InlineRuns(s, k) == RunsFrom(s, k, NextMatchFrom(s, k))

\* text_element_style of a text_run, as the set of its keys
ElementStyle(style) ==
    CASE style = "plain"         -> {}
      [] style = "bold_italic"   -> {"bold", "italic"}
      [] style = "bold"          -> {"bold"}
      [] style = "italic"        -> {"italic"}
      [] style = "code"          -> {"inline_code"}
      [] style = "strikethrough" -> {"strikethrough"}
      [] style = "link"          -> {"link"}

TextRun(r) ==
    [content |-> r.inner, text_element_style |-> ElementStyle(r.style), url |-> r.url]

Segment(r) == [text |-> r.inner, style |-> r.style, url |-> r.url]

\* 'if not elements: elements.append(...)'
ElementsOf(text, runs) ==
    IF runs = <<>> THEN << TextRun(PlainRun(text)) >>
    ELSE [k \in 1..Len(runs) |-> TextRun(runs[k])]

\* _make_text_elements
MakeTextElements(text) == ElementsOf(text, InlineRuns(text, 1))

\* 'if not segments: return {"content": text, "format": "plain"}'
FormattedOf(text, runs) ==
    IF runs = <<>> THEN [content |-> text, format |-> "plain", segments |-> <<>>]
    ELSE [content |-> text, format |-> "rich",
          segments |-> [k \in 1..Len(runs) |-> Segment(runs[k])]]

\* _parse_inline_formatting
ParseInlineFormatting(text) == FormattedOf(text, InlineRuns(text, 1))

\* the lengths up to which the texts over each alphabet are enumerated
MaxStars == 7
MaxMixed == 5
MaxLink == 6

RECURSIVE StringsOver(_, _)
\* the strings of n characters of A
StringsOver(A, n) ==
    IF n = 0 THEN {""}
    ELSE { a \o s : a \in A, s \in StringsOver(A, n - 1) }

StringsUpTo(A, n) == UNION { StringsOver(A, k) : k \in 0..n }

LongerTexts ==
    { "x **b** [t](u) y", "***bi*** and ~~s~~ and ^c^", "a*b\nc*d", "*a\n*b*",
      "[a\nb](c\nd)", "^[x](y)^", "**[x](y)**", "[*x*](y)", "~~*a*~~ *b*",
      "[x] (y) [z](w)", "****a****", "* a * b" }

InlineTexts ==
    StringsUpTo({"*", "a"}, MaxStars)
        \cup StringsUpTo({"*", "~", "^", "a"}, MaxMixed)
        \cup StringsUpTo({"[", "]", "(", ")"}, MaxLink)
        \cup LongerTexts

\* no write and no scan is running
WriterIdle ==
    /\ blocks = <<>>
    /\ i = 1
    /\ pending_blocks = <<>>
    /\ success_count = 0
    /\ total_count = 0
    /\ ret = "none"
    /\ feishu_blocks = <<>>
    /\ batch_i = 0
    /\ success = 0
    /\ caller = "none"
    /\ result = Nil
    /\ cell_ids = <<>>
    /\ row_idx = 0
    /\ col_idx = 0
    /\ filled = 0
    /\ requests = <<>>
    /\ table_ok = {}
    /\ fills_failed = 0

InitInline ==
    /\ inline_text \in InlineTexts
    /\ elements = <<>>
    /\ formatted = "none"
    /\ pc = "inline"
    /\ CreateIdle
    /\ ApiIdle
    /\ ScanIdle
    /\ WriterIdle



\* _make_text_obj(text) asks for the elements of a text
DoMakeTextElements ==
    /\ pc = "inline"
    /\ elements' = MakeTextElements(inline_text)
    /\ pc' = "elements"
    /\ UNCHANGED << inline_text, formatted, createVars, apiVars, scanVars, writerVars >>

\* the scanner asks for the formatted dict of the same text
DoParseInlineFormatting ==
    /\ pc = "elements"
    /\ formatted' = ParseInlineFormatting(inline_text)
    /\ pc' = "parsed"
    /\ UNCHANGED << inline_text, elements, createVars, apiVars, scanVars, writerVars >>

NextInline ==
    \/ DoMakeTextElements
    \/ DoParseInlineFormatting

SpecInline == InitInline /\ [][NextInline]_vars

(***************************************************************************)
(* create_document: the create request, write_document_content, and the    *)
(* dict it returns.                                                        *)
(***************************************************************************)
\* a create answer whose document carries the id (no id: "")
Created(id) == [document_id |-> id] @@ Data(0, <<>>)

\* what api.post may return for the create request
CreateResponses == {Nil, EmptyPayload, Created(""), Created(document_id)}

\* 'x is not None' for a value of write_document_content, which returns
\* True or False on every path
IsNotNone(x) == x # "None"

InitCreate ==
    /\ blocks \in ShortDocs
    /\ pc = "create"
    /\ i = 1
    /\ pending_blocks = <<>>
    /\ success_count = 0
    /\ total_count = 0
    /\ ret = "none"
    /\ feishu_blocks = <<>>
    /\ batch_i = 0
    /\ success = 0
    /\ caller = "none"
    /\ result = Nil
    /\ cell_ids = <<>>
    /\ row_idx = 0
    /\ col_idx = 0
    /\ filled = 0
    /\ requests = <<>>
    /\ table_ok = {}
    /\ fills_failed = 0
    /\ ScanIdle
    /\ OtherIdle

\* step 1: the create request; no result or no document id returns None,
\* otherwise write_document_content is called
CreateDocument ==
    /\ pc = "create"
    /\ \E res \in CreateResponses :
          /\ result' = res
          /\ IF ~Truthy(res) \/ res.document_id = ""
                THEN /\ doc_info' = ReturnedNone
                     /\ pc' = "returned"
                ELSE /\ doc_info' = doc_info
                     /\ pc' = "start"
    /\ UNCHANGED << inlineVars, apiVars, scanVars, blocks, i, mainVars, ret, batchVars,
                    tableVars, requests, table_ok >>

\* step 3: doc_info, with "content_written": write_result is not None
CreateDocumentReturn ==
    /\ pc = "done"
    /\ doc_info' = DocInfo(document_id, IsNotNone(ret))
    /\ pc' = "returned"
    /\ UNCHANGED << inlineVars, apiVars, scanVars, blocks, i, mainVars, ret, batchVars,
                    result, tableVars, requests, table_ok >>

NextCreate ==
    \/ CreateDocument
    \/ Next
    \/ CreateDocumentReturn

SpecCreate == InitCreate /\ [][NextCreate]_vars

(***************************************************************************)
(* The transport, feishu_api.py: one call of _make_request with its        *)
(* token handling.  Tokens are numbered in the order the auth endpoint     *)
(* issues them.                                                            *)
(***************************************************************************)
\* the largest max_retries of the model
MaxRetries == 3

HttpOk == 200
TooManyRequests == 429
TokenExpiredCode == 99991663

\* what requests.request may do: a response with its status, the code of
\* its body and the kind of its Retry-After header, or an exception
Response(status, code, retry_after) ==
    [kind |-> "response", status |-> status, code |-> code, retry_after |-> retry_after]

Raises(exception) ==
    [kind |-> exception, status |-> 0, code |-> 0, retry_after |-> "absent"]

ApiResponses ==
    { Response(HttpOk, 0, "absent"),
      Response(HttpOk, TokenExpiredCode, "absent"),
      Response(HttpOk, 1, "absent"),
      Response(TooManyRequests, 0, "absent"),
      Response(TooManyRequests, 0, "seconds"),
      Response(TooManyRequests, 0, "date"),
      Response(500, 0, "absent"),
      Raises("Timeout"),
      Raises("RequestException") }

\* what one pass of the retry loop does with the response: "data" returns
\* result.get('data'), "None" returns None, "expired" refreshes the token,
\* "retry" goes to the next attempt, and "raise" is int() of a Retry-After
\* header that is not a number, which no except clause catches
Outcome(resp) ==
    CASE resp.kind # "response" -> "retry"
      [] resp.kind = "response" /\ resp.status = HttpOk /\ resp.code = 0 -> "data"
      [] resp.kind = "response" /\ resp.status = HttpOk
             /\ resp.code = TokenExpiredCode -> "expired"
      [] resp.kind = "response" /\ resp.status = HttpOk
             /\ resp.code \notin {0, TokenExpiredCode} -> "None"
      [] resp.kind = "response" /\ resp.status = TooManyRequests
             /\ resp.retry_after = "date" -> "raise"
      [] resp.kind = "response" /\ resp.status = TooManyRequests
             /\ resp.retry_after # "date" -> "retry"
      [] OTHER -> "None"

\* _ensure_token goes on to _refresh_token unless it holds a token that
\* is more than five minutes from its expiry
NeedsRefresh(token, expires_at) == ~(token # 0 /\ expires_at = "later")

\* _refresh_token after the requests of log, with the token held being
\* 'token': one auth request; when it succeeds the new token is stored
RefreshToken(ok, token, log) ==
    /\ http_sent' = Append(log, [kind |-> "auth",
                                 token |-> IF ok THEN issued + 1 ELSE 0,
                                 outcome |-> IF ok THEN "data" ELSE "None",
                                 attempt |-> attempt])
    /\ issued' = IF ok THEN issued + 1 ELSE issued
    /\ tenant_access_token' = IF ok THEN issued + 1 ELSE token
    /\ token_expires_at' = IF ok THEN "later" ELSE token_expires_at

\* 'return x' of _make_request
ApiReturn(x) ==
    /\ api_ret' = x
    /\ pc' = "returned"

InitApi ==
    /\ tenant_access_token \in {0, 1}
    /\ token_expires_at \in IF tenant_access_token = 0 THEN {"None"}
                            ELSE {"later", "due"}
    /\ issued = tenant_access_token
    /\ max_retries \in 0..MaxRetries
    /\ headers_token = 0
    /\ attempt = 0
    /\ api_ret = "none"
    /\ http_sent = <<>>
    /\ pc = "request"
    /\ InlineIdle
    /\ CreateIdle
    /\ ScanIdle
    /\ WriterIdle

\* the entry of _make_request: _ensure_token, then the headers with the
\* token held at that moment
MakeRequest ==
    /\ pc = "request"
    /\ IF NeedsRefresh(tenant_access_token, token_expires_at)
          THEN \E ok \in BOOLEAN :
                 /\ RefreshToken(ok, tenant_access_token, http_sent)
                 /\ IF ok
                       THEN /\ headers_token' = tenant_access_token'
                            /\ pc' = "attempt"
                            /\ api_ret' = api_ret
                       ELSE /\ headers_token' = headers_token
                            /\ ApiReturn("None")
          ELSE /\ headers_token' = tenant_access_token
               /\ pc' = "attempt"
               /\ UNCHANGED << tenant_access_token, token_expires_at, issued,
                               http_sent, api_ret >>
    /\ attempt' = 0
    /\ UNCHANGED << max_retries, inlineVars, createVars, scanVars, writerVars >>

\* mutant: the loop makes one attempt more
AttemptsLeftOneMore(a, m) == a <= m

\* 'for attempt in range(self.max_retries)'
AttemptsLeft(a, m) == a < m

\* one pass of the retry loop: the request goes out with the headers built
\* before the loop, and the response decides how the pass ends
SendRequest ==
    /\ pc = "attempt"
    /\ AttemptsLeft(attempt, max_retries)
    /\ \E resp \in ApiResponses :
         LET log == Append(http_sent, [kind |-> "api", token |-> headers_token,
                                       outcome |-> Outcome(resp),
                                       attempt |-> attempt])
         IN  CASE Outcome(resp) = "data" ->
                    /\ ApiReturn("data")
                    /\ http_sent' = log
                    /\ UNCHANGED << attempt, tenant_access_token, token_expires_at, issued >>
               [] Outcome(resp) = "None" ->
                    /\ ApiReturn("None")
                    /\ http_sent' = log
                    /\ UNCHANGED << attempt, tenant_access_token, token_expires_at, issued >>
               [] Outcome(resp) = "raise" ->
                    /\ ApiReturn("raised")
                    /\ http_sent' = log
                    /\ UNCHANGED << attempt, tenant_access_token, token_expires_at, issued >>
               [] Outcome(resp) = "retry" ->
                    /\ attempt' = attempt + 1
                    /\ http_sent' = log
                    /\ UNCHANGED << pc, api_ret, tenant_access_token, token_expires_at, issued >>
               [] Outcome(resp) = "expired" ->
                    \* self.tenant_access_token = None, then _ensure_token
                    \E ok \in BOOLEAN :
                       /\ RefreshToken(ok, 0, log)
                       /\ IF ok
                             THEN /\ attempt' = attempt + 1
                                  /\ UNCHANGED << pc, api_ret >>
                             ELSE /\ attempt' = attempt
                                  /\ ApiReturn("None")
    /\ UNCHANGED << headers_token, max_retries, inlineVars, createVars, scanVars,
                    writerVars >>

\* the loop is over: 'return None'
AttemptsUsedUp ==
    /\ pc = "attempt"
    /\ ~AttemptsLeft(attempt, max_retries)
    /\ ApiReturn("None")
    /\ UNCHANGED << tenant_access_token, token_expires_at, max_retries, headers_token,
                    attempt, issued, http_sent, inlineVars, createVars, scanVars,
                    writerVars >>

NextApi ==
    \/ MakeRequest
    \/ SendRequest
    \/ AttemptsUsedUp

SpecApi == InitApi /\ [][NextApi]_vars

\* requests.request and time.sleep return, so the call takes its next step
FairSpecApi == SpecApi /\ WF_vars(NextApi)

(***************************************************************************)
(* Properties                                                              *)
(***************************************************************************)
\* the children of the requests of reqs[1..n] issued by one of the callers
\* in vias, concatenated in the order the requests were issued
RECURSIVE ChildrenSent(_, _, _)
ChildrenSent(reqs, n, vias) ==
    IF n = 0 THEN << >>
    ELSE ChildrenSent(reqs, n - 1, vias)
         \o (IF reqs[n].via \in vias THEN reqs[n].children ELSE << >>)

\* the children lists of the flush requests of reqs[1..n], one per request
RECURSIVE FlushChunks(_, _)
FlushChunks(reqs, n) ==
    IF n = 0 THEN << >>
    ELSE FlushChunks(reqs, n - 1)
         \o (IF reqs[n].via = "flush" THEN << reqs[n].children >> ELSE << >>)

\* the wire blocks of the non-table blocks among bs[lo..hi], in document order
RECURSIVE WireBlocksIn(_, _, _)
WireBlocksIn(bs, lo, hi) ==
    IF lo > hi THEN << >>
    ELSE IF lo = hi
            THEN (IF bs[lo].type = "table" THEN << >> ELSE BlocksToFeishuJson(bs[lo]))
            ELSE LET mid == (lo + hi) \div 2
                 IN  WireBlocksIn(bs, lo, mid) \o WireBlocksIn(bs, mid + 1, hi)

WireBlocksOf(bs, n) == WireBlocksIn(bs, 1, n)

IsPrefix(s, t) == Len(s) <= Len(t) /\ SubSeq(t, 1, Len(s)) = s

Requests == 1..Len(requests)

\* C1: when a table's shell request is issued, every wire block of the
\* blocks before the table has been sent, in document order, and the buffer
\* is empty; the flushes never send a wire block a second time or out of
\* order, so no text before a table is sent after the table's shell request.
C1_TextFlushedBeforeTable ==
    /\ pc = "table" => pending_blocks = << >>
    /\ \A p \in Requests :
          requests[p].via = "shell" =>
             ChildrenSent(requests, p - 1, {"flush"})
                = WireBlocksOf(blocks, requests[p].at - 1)
    /\ IsPrefix(ChildrenSent(requests, Len(requests), {"flush"}),
                WireBlocksOf(blocks, Len(blocks)))

\* a finished run in which text was flushed ahead of a table's shell request
C1_Witness ==
    /\ pc = "done"
    /\ \E p \in Requests :
          /\ requests[p].via = "shell"
          /\ p > 1
          /\ requests[p - 1].via = "flush"
          /\ requests[p - 1].at = requests[p].at

\* C2: every request of the batch writer, from a flush or from a table's
\* text fallback, carries at least 1 and at most 50 wire blocks.
C2_ChunkSizeBounded ==
    \A p \in Requests :
        requests[p].via \in {"flush", "fallback"} =>
            /\ Len(requests[p].children) >= 1
            /\ Len(requests[p].children) <= 50

\* a flush of more than 50 wire blocks that went out as a full chunk and a rest
C2_Witness ==
    \E p \in Requests :
        /\ p < Len(requests)
        /\ requests[p].via = "flush"
        /\ Len(requests[p].children) = 50
        /\ requests[p + 1].via = "flush"
        /\ requests[p + 1].at = requests[p].at
        /\ Len(requests[p + 1].children) < 50

\* a list of wire blocks cut into requests of at most 50
RECURSIVE ChunksOf(_)
ChunksOf(ws) ==
    IF ws = << >> THEN << >>
    ELSE IF Len(ws) <= 50 THEN << ws >>
    ELSE << SubSeq(ws, 1, 50) >> \o ChunksOf(SubSeq(ws, 51, Len(ws)))

\* The flush requests a run issues for bs[lo..hi] entered with buf pending
\* when every request succeeds (out), and what is pending after it (buf).
RECURSIVE AllSuccessRun(_, _, _, _)
AllSuccessRun(bs, lo, hi, buf) ==
    IF lo > hi THEN [out |-> << >>, buf |-> buf]
    ELSE IF lo = hi
       THEN IF bs[lo].type = "table"
               THEN [out |-> ChunksOf(buf), buf |-> << >>]
               ELSE LET acc == buf \o BlocksToFeishuJson(bs[lo])
                    IN  IF Len(acc) >= 50
                           THEN [out |-> ChunksOf(acc), buf |-> << >>]
                           ELSE [out |-> << >>, buf |-> acc]
       ELSE LET mid   == (lo + hi) \div 2
                left  == AllSuccessRun(bs, lo, mid, buf)
                right == AllSuccessRun(bs, mid + 1, hi, left.buf)
            IN  [out |-> left.out \o right.out, buf |-> right.buf]

AllSuccessFlushes(bs) ==
    LET run == AllSuccessRun(bs, 1, Len(bs), << >>)
    IN  run.out \o ChunksOf(run.buf)

TableBlocks == { n \in 1..Len(blocks) : blocks[n].type = "table" }

\* C3: a chunk request answered nil adds 0 to the success count, and the
\* run goes on as if it had succeeded: whatever the answers, the flush
\* requests issued are, in order, those of the run in which every request
\* succeeds, and every table of the document gets its shell request.
C3_FailedChunkDoesNotAbort ==
    /\ \A p \in Requests :
          (requests[p].via \in {"flush", "fallback"}
              /\ requests[p].answer.kind = "nil") => requests[p].credited = 0
    /\ IsPrefix(FlushChunks(requests, Len(requests)), AllSuccessFlushes(blocks))
    /\ pc = "done" =>
          /\ FlushChunks(requests, Len(requests)) = AllSuccessFlushes(blocks)
          /\ \A n \in TableBlocks :
                \E p \in Requests : requests[p].via = "shell" /\ requests[p].at = n

\* a finished run with a failed chunk that was followed by another chunk of
\* the same flush and by a later flush
C3_Witness ==
    /\ pc = "done"
    /\ \E p \in Requests :
          /\ p + 2 <= Len(requests)
          /\ requests[p].via = "flush"
          /\ requests[p].answer.kind = "nil"
          /\ requests[p + 1].via = "flush"
          /\ requests[p + 1].at = requests[p].at
          /\ requests[p + 2].via = "flush"
          /\ requests[p + 2].at > requests[p].at

\* the lines a table flattens to: the header row, then each data row
FlattenedLines(t) ==
    [r \in 1..(1 + Len(t.rows)) |->
        Wire(2, JoinPipe(IF r = 1 THEN t.headers ELSE t.rows[r - 1]))]

\* the children of the requests after request p that belong to the same block
RECURSIVE SentFor(_, _, _)
SentFor(reqs, p, q) ==
    IF q <= p THEN << >>
    ELSE SentFor(reqs, p, q - 1)
         \o (IF reqs[q].at = reqs[p].at THEN reqs[q].children ELSE << >>)

C4_FallbackState ==
    \A p \in Requests :
        (requests[p].via = "shell" /\ requests[p].answer.kind = "nil") =>
            LET t == blocks[requests[p].at]
            IN  /\ \A q \in Requests :
                      (q > p /\ requests[q].at = requests[p].at) =>
                          /\ requests[q].via = "fallback"
                          /\ requests[q].parent = requests[p].parent
                /\ IsPrefix(SentFor(requests, p, Len(requests)), FlattenedLines(t))
                /\ i > requests[p].at =>
                      /\ SentFor(requests, p, Len(requests)) = FlattenedLines(t)
                      /\ requests[p].at \notin table_ok

C4_FallbackStep ==
    (pc = "write" /\ caller = "fallback" /\ pc' # "write") =>
        /\ total_count' = total_count + 1
        /\ success_count' = success_count

\* C4: after a shell request answered nil the batch writer is handed, under
\* the same parent, one text block for the header row and one per data row,
\* in order, each the row's cells joined with " | "; no cell is filled and
\* the table adds 1 to total_count and 0 to success_count whatever the
\* answers to the fallback writes.
C4_ShellFailureFallsBack == [][C4_FallbackStep /\ C4_FallbackState']_vars

\* a finished run in which a table with two data rows fell back to text and
\* the fallback write itself succeeded
C4_Witness ==
    /\ pc = "done"
    /\ \E p \in Requests :
          /\ p < Len(requests)
          /\ requests[p].via = "shell"
          /\ requests[p].answer.kind = "nil"
          /\ Len(blocks[requests[p].at].rows) = 2
          /\ requests[p + 1].via = "fallback"
          /\ requests[p + 1].credited = 3

\* C5: a table whose shell could not be created as a usable table (the
\* answer is nil or empty, or holds no created child, or no cell
\* identifiers) has had its header and rows sent as flattened text lines
\* once the table builder has returned.
C5_FailedTableContentSent ==
    \A p \in Requests :
        (requests[p].via = "shell" /\ ~requests[p].usable /\ i > requests[p].at) =>
            SentFor(requests, p, Len(requests)) = FlattenedLines(blocks[requests[p].at])

IsFillOfCurrentTable(r) == r.via = "cell" /\ r.at = i

\* a table whose rows all have as many cells as the header row
IsRegular(t) == \A r \in 1..Len(t.rows) : Len(t.rows[r]) = Len(t.headers)

\* the text of the cell at row-major index n (from 0) of a regular table
RowMajorText(t, n) ==
    LET cols == Len(t.headers)
        rows == << t.headers >> \o t.rows
    IN  rows[(n \div cols) + 1][(n % cols) + 1]

\* C6: for a table with rows of col_count cells whose shell answer holds
\* k < row_count * col_count cell identifiers, the fill requests go, in
\* order, to the identifiers at indices 0..k-1 with the texts of the cells
\* at those row-major indices, and to no other; when the loops end exactly
\* k fills were issued, and filled = k when none of them failed.
C6_UnderProvisionedFill ==
    (/\ pc = "fill"
     /\ IsRegular(blocks[i])
     /\ Len(cell_ids) < (1 + Len(blocks[i].rows)) * Len(blocks[i].headers)) =>
        LET t     == blocks[i]
            k     == Len(cell_ids)
            fills == SelectSeq(requests, IsFillOfCurrentTable)
        IN  /\ Len(fills) <= k
            /\ \A j \in 1..Len(fills) :
                  /\ fills[j].parent = cell_ids[j]
                  /\ fills[j].children = << Wire(2, RowMajorText(t, j - 1)) >>
            /\ filled + fills_failed = Len(fills)
            /\ FillPos(t, cell_ids, row_idx, col_idx) = << >> =>
                  /\ Len(fills) = k
                  /\ fills_failed = 0 => filled = k

\* the fill loops of a 3 x 3 table have ended with 4 identifiers, 4 filled
C6_Witness ==
    /\ pc = "fill"
    /\ IsRegular(blocks[i])
    /\ Len(blocks[i].headers) = 3
    /\ Len(blocks[i].rows) = 2
    /\ Len(cell_ids) = 4
    /\ FillPos(blocks[i], cell_ids, row_idx, col_idx) = << >>
    /\ Len(SelectSeq(requests, IsFillOfCurrentTable)) = 4
    /\ filled = 4

\* C7: the run reports success exactly when total_count > 0 and
\* success_count / total_count > 0.5: 5 of 10 is no success, 6 of 10 is.
C7_SuccessIffAboveHalf ==
    pc = "done" =>
        /\ ret \in {"True", "False"}
        /\ ret = "True" <=> (total_count > 0 /\ 2 * success_count > total_count)
        /\ (total_count = 10 /\ success_count = 5) => ret = "False"
        /\ (total_count = 10 /\ success_count = 6) => ret = "True"

\* 5 of 10 blocks succeeded and the run reported failure
C7_Witness ==
    /\ pc = "done"
    /\ total_count = 10
    /\ success_count = 5
    /\ ret = "False"

OneWireBlockTypes == {"heading", "paragraph", "code", "quote", "divider"}

AllSingles == \A n \in 1..Len(blocks) : blocks[n].type \in OneWireBlockTypes

\* C8: a document of N blocks that translate to one wire block each is
\* written with ceil(N / 50) requests, all of 50 blocks but the last, which
\* carries the rest.
C8_BatchBoundary ==
    (pc = "done" /\ AllSingles) =>
        LET N     == Len(blocks)
            count == (N + 49) \div 50
        IN  /\ Len(requests) = count
            /\ \A p \in Requests :
                  /\ requests[p].via = "flush"
                  /\ Len(requests[p].children) =
                        IF p < count THEN 50 ELSE N - 50 * (count - 1)

\* 120 blocks went out as 50, 50 and 20
C8_Witness ==
    /\ pc = "done"
    /\ AllSingles
    /\ Len(blocks) = 120
    /\ Len(requests) = 3
    /\ Len(requests[1].children) = 50
    /\ Len(requests[2].children) = 50
    /\ Len(requests[3].children) = 20

\* C9: a chunk request the store answers successfully (any answer but nil)
\* is credited with the number of children the answer reports, and with the
\* chunk's size when it reports none, an empty payload included.
C9_CreditedIsReportedOrChunkSize ==
    \A p \in Requests :
        (requests[p].via \in {"flush", "fallback"}
            /\ requests[p].answer.kind # "nil") =>
                requests[p].credited =
                    IF requests[p].answer.children > 0
                       THEN requests[p].answer.children
                       ELSE Len(requests[p].children)

\* wire blocks a non-table block stands for: one per list item, else one
WireCount(b) ==
    IF b.type \in {"bullet_list", "ordered_list"} THEN Len(b.items) ELSE 1

RECURSIVE WireTotal(_, _, _)
WireTotal(bs, lo, hi) ==
    IF lo > hi THEN 0
    ELSE IF lo = hi THEN (IF bs[lo].type = "table" THEN 0 ELSE WireCount(bs[lo]))
    ELSE LET mid == (lo + hi) \div 2
         IN  WireTotal(bs, lo, mid) + WireTotal(bs, mid + 1, hi)

RECURSIVE FlushCredit(_, _)
FlushCredit(reqs, n) ==
    IF n = 0 THEN 0
    ELSE FlushCredit(reqs, n - 1)
         + (IF reqs[n].via = "flush" THEN reqs[n].credited ELSE 0)

\* C10: at the end total_count is the number of wire blocks of the
\* non-table blocks plus the number of tables, whatever the store answered,
\* and success_count is the sum of what the flushed chunks were credited
\* with plus the number of tables declared successful.
C10_TotalsAccountForEverything ==
    pc = "done" =>
        /\ total_count = WireTotal(blocks, 1, Len(blocks)) + Cardinality(TableBlocks)
        /\ success_count = FlushCredit(requests, Len(requests)) + Cardinality(table_ok)

\* a finished run over text, a table that succeeded and a chunk that failed
C10_Witness ==
    /\ pc = "done"
    /\ table_ok # {}
    /\ \E n \in 1..Len(blocks) : blocks[n].type = "bullet_list" /\ Len(blocks[n].items) > 1
    /\ \E p \in Requests : requests[p].via = "flush" /\ requests[p].credited = 0
    /\ success_count > 0

\* the logical rows of a table: the header row, when there is one, and
\* then the data rows
LogicalRows(t) == (IF t.headers = <<>> THEN <<>> ELSE << t.headers >>) \o t.rows

\* the column count the shell was sized with
LogicalCols(t) ==
    IF t.headers # <<>> THEN Len(t.headers)
    ELSE IF t.rows = <<>> THEN 0 ELSE Len(t.rows[1])

\* the positions (row, column), from 0, of the cells of a table
CellPositions(t) ==
    { p \in (0..(Len(LogicalRows(t)) - 1)) \X (0..MaxCols) :
        p[2] < Len(LogicalRows(t)[p[1] + 1]) }

\* the position of the cell a fill request carries the text of (the cell
\* texts of a table of the model are pairwise different)
PositionOf(t, req) ==
    CHOOSE p \in CellPositions(t) :
        req.children = << Wire(2, LogicalRows(t)[p[1] + 1][p[2] + 1]) >>

RowMajorBefore(p, q) == p[1] < q[1] \/ (p[1] = q[1] /\ p[2] < q[2])

\* C11: every fill request carries the text of one cell of the logical rows
\* ([headers] + rows, rows alone without a header row) and goes to the
\* identifier at index r * col_count + c of the returned array, which is
\* inside the array; the fills are issued in row-major order, and when the
\* loops end exactly the cells whose index is inside the array were written.
C11_RowMajorFill ==
    pc = "fill" =>
        LET t     == blocks[i]
            cols  == LogicalCols(t)
            fills == SelectSeq(requests, IsFillOfCurrentTable)
            at(j) == PositionOf(t, fills[j])
        IN  /\ \A j \in 1..Len(fills) :
                  /\ \E p \in CellPositions(t) :
                        fills[j].children =
                            << Wire(2, LogicalRows(t)[p[1] + 1][p[2] + 1]) >>
                  /\ at(j)[1] * cols + at(j)[2] < Len(cell_ids)
                  /\ fills[j].parent = cell_ids[at(j)[1] * cols + at(j)[2] + 1]
                  /\ j > 1 => RowMajorBefore(at(j - 1), at(j))
            /\ FillPos(t, cell_ids, row_idx, col_idx) = << >> =>
                  { at(j) : j \in 1..Len(fills) }
                      = { p \in CellPositions(t) :
                            p[1] * cols + p[2] < Len(cell_ids) }

\* the fill loops of a table of a header row of 2 cells and data rows of 3
\* and 2 cells have ended after 7 fills into 6 identifiers
C11_Witness ==
    /\ pc = "fill"
    /\ Len(blocks[i].headers) = 2
    /\ Len(blocks[i].rows) = 2
    /\ Len(blocks[i].rows[1]) = 3
    /\ Len(cell_ids) = 6
    /\ FillPos(blocks[i], cell_ids, row_idx, col_idx) = << >>
    /\ Len(SelectSeq(requests, IsFillOfCurrentTable)) = 7

\* C12: the shell request of a table asks for row_count rows and col_count
\* columns, row_count = (1 if there is a header row else 0) + len(rows),
\* col_count = len(headers), or len(first row) without a header row; a
\* table for which either is 0 gets no request at all and is a failure; a
\* table of a header row and 2 data rows asks for 3 rows.
C12_ShellSize ==
    \A n \in 1..Len(blocks) :
        blocks[n].type = "table" =>
            LET t         == blocks[n]
                row_count == (IF t.headers # <<>> THEN 1 ELSE 0) + Len(t.rows)
                col_count == LogicalCols(t)
                mine      == { p \in Requests : requests[p].at = n }
                shells    == { p \in mine : requests[p].via = "shell" }
            IN  /\ \A p \in shells :
                      /\ requests[p].parent = document_id
                      /\ requests[p].children =
                            << [block_type |-> 31, row_size |-> row_count,
                                column_size |-> col_count] >>
                      /\ (t.headers # <<>> /\ Len(t.rows) = 2) =>
                            requests[p].children[1].row_size = 3
                /\ (row_count = 0 \/ col_count = 0) =>
                      /\ mine = {}
                      /\ n \notin table_ok
                      /\ i > n => total_count >= 1
                /\ (row_count > 0 /\ col_count > 0 /\ (i > n \/ (i = n /\ pc # "table" /\ pc # "loop" /\ pc # "start"))) =>
                      /\ Cardinality(shells) = 1
                      /\ \A p \in mine : \E q \in shells : q <= p

\* the shell of a table of a header row and 2 data rows was requested
C12_Witness ==
    /\ pc = "fill"
    /\ blocks[i].headers # <<>>
    /\ Len(blocks[i].rows) = 2
    /\ \E p \in Requests :
          /\ requests[p].via = "shell"
          /\ requests[p].at = i
          /\ requests[p].children[1].row_size = 3
          /\ requests[p].children[1].column_size = Len(blocks[i].headers)

\* filled counts the fill requests of the current table answered truthy
C14_FilledCountsFills ==
    pc = "fill" =>
        filled + fills_failed = Len(SelectSeq(requests, IsFillOfCurrentTable))

\* the step on which _create_table_block returns from the fill phase
C14_ReturnStep ==
    /\ (pc = "fill" /\ pc' # "fill") =>
          /\ (i \in table_ok') <=> (filled > 0)
          /\ total_count' = total_count + 1
          /\ success_count' = success_count + (IF filled > 0 THEN 1 ELSE 0)
    /\ table_ok' # table_ok =>
          /\ pc = "fill"
          /\ filled > 0
          /\ table_ok' = table_ok \cup {i}
    /\ C14_FilledCountsFills'

\* C14: a table is declared successful exactly when at least one of its
\* fill requests succeeded: one filled cell out of many makes the table one
\* succeeded block, a shell whose fills all failed is a failed block, and a
\* table is never declared successful on any other path.
C14_TableSuccessIffFilled == [][C14_ReturnStep]_vars

\* the fill loops of a table of 6 cells have ended with one cell filled
C14_Witness ==
    /\ pc = "fill"
    /\ FillPos(blocks[i], cell_ids, row_idx, col_idx) = << >>
    /\ filled = 1
    /\ fills_failed = 5

\* write_document_content has returned its flag after the loop went over
\* every block, and every table was attempted
C13_Completed ==
    /\ pc = "done"
    /\ ret \in {"True", "False"}
    /\ i = Len(blocks) + 1
    /\ \A n \in TableBlocks : \E p \in Requests : requests[p].at = n

\* C13: whatever the store answers (None, an empty payload or data) to any
\* chunk, shell or fill request, the run of write_document_content comes
\* to its end and returns its flag, having gone over every block.
C13_RunCompletes == <>C13_Completed

\* a run has ended although a chunk before a table and the table's shell
\* request failed: the shell and the text after the table were still sent
C13_Witness ==
    /\ C13_Completed
    /\ \E p \in Requests :
          /\ requests[p].via = "flush"
          /\ ~Truthy(requests[p].answer)
          /\ \E q \in Requests : q > p /\ requests[q].via = "shell"
    /\ \E p \in Requests :
          /\ requests[p].via = "shell"
          /\ ~Truthy(requests[p].answer)
          /\ \E q \in Requests : q > p /\ requests[q].via = "flush"

\* C15 as stated: at the end the children of all the requests issued
\* through _write_children_batch, concatenated in the order of issue, are
\* the wire blocks of the document's non-table blocks in document order.
C15_AllBatchRequestsCarryTheText ==
    pc = "done" =>
        ChildrenSent(requests, Len(requests), {"flush", "fallback"})
            = WireBlocksOf(blocks, Len(blocks))

\* C15, amended: the children of the batch write requests other than those
\* of a table's text fallback, concatenated in the order of issue, are at
\* every moment the wire blocks of the non-table blocks the loop has gone
\* over, less those still pending, and at the end exactly the wire blocks
\* of all the non-table blocks, in document order, whatever the answers.
C15_FlushesCarryTheText ==
    LET sent == ChildrenSent(requests, Len(requests), {"flush"})
    IN  /\ IsPrefix(sent, WireBlocksOf(blocks, Len(blocks)))
        /\ pc = "loop" =>
              sent \o pending_blocks = WireBlocksOf(blocks, i - 1)
        /\ pc = "done" => sent = WireBlocksOf(blocks, Len(blocks))

\* a run has ended in which a flush failed, a table fell back to text and
\* the text after the table was flushed
C15_Witness ==
    /\ pc = "done"
    /\ \E p, q, r \in Requests :
          /\ p < q /\ q < r
          /\ requests[p].via = "flush" /\ ~Truthy(requests[p].answer)
          /\ requests[q].via = "fallback"
          /\ requests[r].via = "flush"

Spans == 1..Len(spans)

\* C16: a paragraph takes, after its first line, exactly the following
\* lines that are not blank and that no rule but the paragraph rule would
\* handle: every line it absorbed is such a line, and the line after it,
\* when there is one, is blank or handled by another rule.
C16_ParagraphExtent ==
    \A p \in Spans :
        spans[p].rule = "paragraph" =>
            /\ \A n \in (spans[p].first + 1)..spans[p].last :
                  Rule(lines, n) = "paragraph"
            /\ spans[p].last < Len(lines) =>
                  Rule(lines, spans[p].last + 1) # "paragraph"

\* C17: a line '<digits>. <text>' at a dispatch point starts an ordered
\* list exactly when its number is at most 3; the list takes every
\* following '<digits>. <text>' line, whatever its number, and no
\* multi-level numbered line; with a number above 3 the line starts no
\* list and is handled as paragraph text.
C17_OrderedListStart ==
    \A p \in Spans :
        LET s == spans[p]
            m == OrderedMatch(RStrip(lines[s.first]))
        IN  /\ m.ok =>
                  /\ s.rule = "ordered_list" <=> m.num <= 3
                  /\ m.num > 3 => s.rule = "paragraph"
            /\ s.rule = "ordered_list" =>
                  /\ m.ok
                  /\ \A n \in s.first..s.last :
                        /\ OrderedMatch(lines[n]).ok
                        /\ ~IsSubsection(Strip(lines[n]))
                  /\ s.last < Len(lines) => ~OrderedMatch(lines[s.last + 1]).ok
                  /\ scan_blocks[s.block].items =
                        [n \in 1..(s.last - s.first + 1) |->
                            OrderedMatch(IF n = 1 THEN RStrip(lines[s.first])
                                         ELSE lines[s.first + n - 1]).text]

\* a separator line, as the table rule tests the line after the header
IsSeparator(l) == Contains(l, "|") /\ Contains(l, "--")

\* the spans that start at a line which reaches the table rule, holds '|'
\* and is not itself a separator line
HeaderCandidates ==
    { p \in Spans :
        /\ spans[p].rule \in {"table", "paragraph"}
        /\ Contains(RStrip(lines[spans[p].first]), "|")
        /\ ~StartsWith(RStrip(lines[spans[p].first]), "|--") }

\* the last of the lines after the separator at line k that hold '|' and
\* are no separators (k when there is none)
LastRowLine(k) ==
    CHOOSE e \in k..Len(lines) :
        /\ \A n \in (k + 1)..e : Contains(lines[n], "|") /\ ~IsSeparator(lines[n])
        /\ e < Len(lines) =>
              ~Contains(lines[e + 1], "|") \/ IsSeparator(lines[e + 1])

\* C18 as stated: such a line yields a table exactly when the next line is
\* a separator line, for any number of data rows including none; headers
\* are its non-empty cells, rows the cells of the lines up to the first one
\* without '|' or that is a separator; without the separator the line goes
\* to the paragraph rule.
C18_TableIffSeparator ==
    \A p \in HeaderCandidates :
        LET s   == spans[p]
            sep == s.first + 1 <= Len(lines) /\ IsSeparator(lines[s.first + 1])
        IN  /\ s.rule = "table" <=> sep
            /\ s.rule = "table" =>
                  /\ s.last = LastRowLine(s.first + 1)
                  /\ scan_blocks[s.block].headers = Cells(RStrip(lines[s.first]))
                  /\ scan_blocks[s.block].rows =
                        [n \in 1..(s.last - s.first - 1) |-> Cells(lines[s.first + 1 + n])]

\* the match of a line against the item pattern of a kind of list
ItemMatch(kind, l) == IF kind = "bullet_list" THEN BulletMatch(l) ELSE OrderedMatch(l)

\* C19: a list block holds, in order, the items of the list lines from its
\* first line up to the line before the first following line that is no
\* list line of its kind (a blank line, a line of another kind or the end
\* of the text), and the block after a list block is never a list block
\* of the same kind that starts at the next line.
C19_ListIsMaximalRun ==
    \A p \in Spans :
        spans[p].rule \in {"bullet_list", "ordered_list"} =>
            LET s == spans[p]
                item(n) == ItemMatch(s.rule, IF n = s.first THEN RStrip(lines[n])
                                             ELSE lines[n])
            IN  /\ \A n \in s.first..s.last : item(n).ok
                /\ s.last < Len(lines) => ~ItemMatch(s.rule, lines[s.last + 1]).ok
                /\ scan_blocks[s.block].type = s.rule
                /\ scan_blocks[s.block].items =
                      [n \in 1..(s.last - s.first + 1) |-> item(s.first + n - 1).text]
                /\ \A q \in Spans :
                      (spans[q].rule = s.rule /\ q # p) =>
                          /\ spans[q].first # s.last + 1
                          /\ spans[q].last + 1 # s.first

\* '- a', '- b', '- c' was scanned into one bullet list of a, b, c
C19_Witness ==
    /\ pc = "scanned"
    /\ lines = << "- a", "- b", "- c" >>
    /\ scan_blocks = << BulletList(<< "a", "b", "c" >>) >>

\* line n opens a code fence that no later line closes
UnclosedFenceAt(n) ==
    /\ StartsWith(RStrip(lines[n]), Fence)
    /\ \A m \in (n + 1)..Len(lines) : ~StartsWith(lines[m], Fence)

BlockSpans == { p \in Spans : spans[p].rule # "blank" }

\* C21: every dispatch step consumes at least one line and leaves the
\* cursor right after the lines it consumed, so there are at most as many
\* steps as lines; the line ranges of successive steps are disjoint and
\* increasing, and the blocks are in the order of their line ranges, one
\* block per step that is not a blank line.
C21_ForwardOnlyCursor ==
    /\ Len(spans) <= Len(lines)
    /\ line_i <= Len(lines) + 1
    /\ line_i = IF spans = <<>> THEN 1 ELSE spans[Len(spans)].last + 1
    /\ \A p \in Spans :
          /\ spans[p].first <= spans[p].last
          /\ spans[p].last <= Len(lines)
          /\ p > 1 => spans[p].first > spans[p - 1].last
    /\ Len(scan_blocks) = Cardinality(BlockSpans)
    /\ \A p, q \in BlockSpans :
          p < q => spans[p].block < spans[q].block

\* a text of 6 lines was scanned in 2 steps, the first over 5 lines
C21_Witness ==
    /\ pc = "scanned"
    /\ Len(lines) = 6
    /\ Len(spans) = 2
    /\ spans[1].last = 5
    /\ Len(scan_blocks) = 2

\* a span's content put back between the delimiters of its style
Wrapped(content, keys, url) ==
    CASE keys = {}                 -> content
      [] keys = {"bold", "italic"} -> "***" \o content \o "***"
      [] keys = {"bold"}           -> "**" \o content \o "**"
      [] keys = {"italic"}         -> "*" \o content \o "*"
      [] keys = {"inline_code"}    -> "^" \o content \o "^"
      [] keys = {"strikethrough"}  -> "~~" \o content \o "~~"
      [] keys = {"link"}           -> "[" \o content \o "](" \o url \o ")"

\* the spans of the dict _parse_inline_formatting returned
SegmentSpans ==
    IF formatted.format = "plain"
    THEN << [text |-> formatted.content, style |-> "plain", url |-> ""] >>
    ELSE formatted.segments

ElementsWrapped ==
    Join([k \in 1..Len(elements) |->
             Wrapped(elements[k].content, elements[k].text_element_style,
                     elements[k].url)], "")

SegmentsWrapped ==
    Join([k \in 1..Len(SegmentSpans) |->
             Wrapped(SegmentSpans[k].text, ElementStyle(SegmentSpans[k].style),
                     SegmentSpans[k].url)], "")

\* C22: the spans of a line, each put back between the delimiters of its
\* construct, give the line again, so their contents concatenated are the
\* line less the markup of the matched constructs; both parsers return the
\* same contents; a plain span holds no construct; and a line in which the
\* pattern matches nowhere comes back as one plain span equal to the line.
C22_SpansAreTheLineLessMarkup ==
    pc = "parsed" =>
        /\ ElementsWrapped = inline_text
        /\ SegmentsWrapped = inline_text
        /\ Len(elements) = Len(SegmentSpans)
        /\ \A k \in 1..Len(elements) :
               /\ elements[k].content = SegmentSpans[k].text
               /\ elements[k].text_element_style = ElementStyle(SegmentSpans[k].style)
               /\ elements[k].text_element_style = {}
                      => NextMatchFrom(elements[k].content, 1) = 0
        /\ NextMatchFrom(inline_text, 1) = 0 =>
               /\ elements = << [content |-> inline_text,
                                 text_element_style |-> {}, url |-> ""] >>
               /\ Len(SegmentSpans) = 1
               /\ SegmentSpans[1].text = inline_text
               /\ SegmentSpans[1].style = "plain"

C22_Witness ==
    /\ pc = "parsed"
    /\ inline_text = "x **b** [t](u) y"
    /\ Len(elements) = 5
    /\ elements[2].content = "b"
    /\ elements[4].content = "t"

TableFree == TableBlocks = {}

\* the wire blocks of the whole document and the requests ceil(N / 50) asks for
WireBlocksInAll == WireTotal(blocks, 1, Len(blocks))
CeilOfFifty(n) == (n + BatchSize - 1) \div BatchSize

\* C23 as stated: the buffer handed to a flush never holds more than 50
\* wire blocks, and a table-free document of N wire blocks is written with
\* exactly ceil(N / 50) requests.
C23_FlushNeverAboveFifty ==
    /\ (pc = "write" /\ caller # "fallback") => Len(feishu_blocks) <= BatchSize
    /\ (pc = "done" /\ TableFree) => Len(requests) = CeilOfFifty(WireBlocksInAll)

\* C23 (amended): the buffer is tested after each block's wire blocks are
\* appended and flushed as soon as it holds 50 or more, so between blocks
\* it holds fewer than 50, a flush made because of its size holds at least
\* 50 and fewer than 50 plus the wire blocks of the block appended last, the
\* other flushes hold fewer than 50, and a table-free document of N wire
\* blocks is written with at least ceil(N / 50) requests, with exactly that
\* many when no flush needed a second request.
C23_FlushAtFiftyOrMore ==
    /\ pc = "loop" => Len(pending_blocks) < BatchSize
    /\ (pc = "write" /\ caller = "full") =>
           /\ Len(feishu_blocks) >= BatchSize
           /\ Len(feishu_blocks) < BatchSize + WireCount(blocks[i])
    /\ (pc = "write" /\ caller \in {"table", "final"}) =>
           /\ Len(feishu_blocks) >= 1
           /\ Len(feishu_blocks) < BatchSize
    /\ (pc = "done" /\ TableFree) =>
           /\ Len(requests) >= CeilOfFifty(WireBlocksInAll)
           /\ (\A p, q \in Requests : requests[p].at = requests[q].at => p = q)
                  => Len(requests) = CeilOfFifty(WireBlocksInAll)

\* a finished table-free document of 100 wire blocks whose first flush held
\* 52 and went out as 50 and 2, followed by the last 48: three requests
C23_Witness ==
    /\ pc = "done"
    /\ TableFree
    /\ WireBlocksInAll = 100
    /\ Len(requests) = 3
    /\ Len(requests[1].children) = 50
    /\ Len(requests[2].children) = 2
    /\ requests[2].at = requests[1].at
    /\ Len(requests[3].children) = 48

\* C24: a code block's lines are the lines after its opening fence, verbatim,
\* up to a closing line that is exactly three backticks (white space around
\* it aside); a line that starts with three backticks and has further text
\* does not close the block.
C24_FenceClosesOnExactFence ==
    \A p \in Spans :
        spans[p].rule = "code" =>
            /\ Strip(lines[spans[p].last]) = Fence
            /\ \A m \in (spans[p].first + 1)..(spans[p].last - 1) :
                   Strip(lines[m]) # Fence
            /\ scan_blocks[spans[p].block].text
                   = Join(Slice(lines, spans[p].first + 1, spans[p].last - 1), "\n")

\* a line of three or more copies of the one character c
UniformLine(s, c) == Len(s) >= 3 /\ RunLength(s, 1, {c}) = Len(s)

\* C25: a Divider comes only from a line that is three or more copies of
\* one and the same character among '-', '*', '_'; a blank line emits no
\* block.
C25_DividerIsUniform ==
    /\ \A p \in BlockSpans :
           scan_blocks[spans[p].block].type = "divider" =>
               \E c \in {"-", "*", "_"} : UniformLine(RStrip(lines[spans[p].first]), c)
    /\ \A p \in Spans :
           RStrip(lines[spans[p].first]) = "" =>
               /\ spans[p].rule = "blank"
               /\ Len(scan_blocks) = Cardinality({ q \in BlockSpans : q # p })

\* C26: while a table's cells are filled, no cell identifier gets a second
\* fill request, and the count of filled cells stays within
\* row_count * col_count.
C26_EachCellFilledOnce ==
    /\ \A p, q \in Requests :
           (/\ requests[p].via = "cell"
            /\ requests[q].via = "cell"
            /\ requests[p].at = requests[q].at
            /\ requests[p].parent = requests[q].parent) => p = q
    /\ pc = "fill" => filled <= RowCount(blocks[i]) * ColCount(blocks[i])

\* C27: at every point of write_document_content, and when it returns, the
\* count of blocks written is at most the count of blocks attempted.
C27_SuccessWithinTotal ==
    success_count <= total_count

\* C28: in the dict create_document returns, content_written is true
\* exactly when write_document_content returned True for the document.
C28_ContentWrittenIffWriteSucceeded ==
    (pc = "returned" /\ doc_info.returned = "dict") =>
        (doc_info.content_written <=> ret = "True")

HttpSent == 1..Len(http_sent)

\* C29: the API request sent after a token-expired response and a
\* successful refresh carries the token that refresh obtained.
C29_RetryCarriesNewToken ==
    \A p \in HttpSent :
        (/\ p > 2
         /\ http_sent[p].kind = "api"
         /\ http_sent[p - 1].kind = "auth"
         /\ http_sent[p - 1].outcome = "data"
         /\ http_sent[p - 2].kind = "api"
         /\ http_sent[p - 2].outcome = "expired")
            => http_sent[p].token = http_sent[p - 1].token

ApiRequests == { p \in HttpSent : http_sent[p].kind = "api" }

\* the pass that sent request p ended the call
EndsCall(p) ==
    \/ http_sent[p].kind = "api" /\ http_sent[p].outcome \in {"data", "None", "raise"}
    \/ http_sent[p].kind = "auth" /\ http_sent[p].outcome = "None"

C30_Attempts ==
    /\ Cardinality(ApiRequests) <= max_retries
    /\ pc = "attempt" => Cardinality(ApiRequests) = attempt
    /\ \A p \in ApiRequests : http_sent[p].attempt = Cardinality({ q \in ApiRequests : q < p })
    /\ \A p \in HttpSent : EndsCall(p) => (p = Len(http_sent) /\ pc = "returned")
    /\ pc = "returned" =>
          /\ api_ret = "data" <=>
                 (http_sent # <<>> /\ http_sent[Len(http_sent)].kind = "api"
                     /\ http_sent[Len(http_sent)].outcome = "data")
          /\ (http_sent = <<>> \/ ~EndsCall(Len(http_sent))) =>
                 (Cardinality(ApiRequests) = max_retries /\ api_ret = "None")

C30_Returned == pc = "returned"

\* C30: one call sends at most max_retries API requests, each pass that
\* ends in a timeout, a connection error, a 429 or a token-expired answer
\* with a successful refresh using up one attempt; the call sends nothing
\* after a success or an error that is not retried; when the attempts are
\* used up it returns None; and every call returns (or raises).
C30_BoundedAttemptsAndReturn == []C30_Attempts /\ <>C30_Returned

\* three attempts used up by a timeout or 429, a token-expired answer with
\* a successful refresh, and another timeout or 429: None is returned
C30_Witness ==
    /\ pc = "returned"
    /\ api_ret = "None"
    /\ max_retries = 3
    /\ Len(http_sent) = 4
    /\ http_sent[1].outcome = "retry"
    /\ http_sent[2].outcome = "expired"
    /\ http_sent[3].kind = "auth"
    /\ http_sent[4].outcome = "retry"

====
